---- MODULE Spec2Model ----
(***************************************************************************)
(* Camera state machine and screen overlay of the 3D portfolio.            *)
(*                                                                         *)
(* The sources hold two revisions of the camera controller and two of the  *)
(* screen overlay.  The model keeps both of each and fixes a pairing       *)
(* (Builds) at start-up:                                                   *)
(*   reframe = "keyframe"    Camera.ts 1-309   (MonitorKeyframe reframes)  *)
(*   reframe = "controller"  Camera.ts 310-653 (getMonitorPosition and a   *)
(*                           re-targeting tween in resize)                 *)
(*   overlay = "blocker"     World/MonitorScreen.ts (DOM blocker policy)   *)
(*   overlay = "raycast"     Camera.ts 654-1401 (raycast policy, back      *)
(*                           button)                                       *)
(* The constructor of the "controller" revision is wired as the one of the *)
(* "keyframe" revision (Camera.ts 92-95).                                  *)
(*                                                                         *)
(* Vectors are kept symbolically: a pose is a record naming the keyframe   *)
(* it belongs to and the sample of that keyframe's procedural rule; a      *)
(* value written by an unfinished tween is the record Mid(tween, elapsed). *)
(* Time is in milliseconds.                                                *)
(***************************************************************************)
EXTENDS Integers, Sequences, FiniteSets, TLC

------------------------------------------------------------------------------
\* Strings as sequences of characters, so that toLowerCase and includes are
\* computed rather than assumed.

Undefined == "undefined"

UpperCase ==
    << "A","B","C","D","E","F","G","H","I","J","K","L","M",
       "N","O","P","Q","R","S","T","U","V","W","X","Y","Z" >>

LowerCase ==
    << "a","b","c","d","e","f","g","h","i","j","k","l","m",
       "n","o","p","q","r","s","t","u","v","w","x","y","z" >>

toLowerCase(name) ==
    [i \in 1..Len(name) |->
        IF \E j \in 1..Len(UpperCase) : UpperCase[j] = name[i]
        THEN LowerCase[CHOOSE j \in 1..Len(UpperCase) : UpperCase[j] = name[i]]
        ELSE name[i]]

includes(name, sub) ==
    \E i \in 0..(Len(name) - Len(sub)) : SubSeq(name, i + 1, i + Len(sub)) = sub

\* The substrings tested by handleInput, revision "keyframe".
AllowListKeyframe ==
    { <<"c","o","m","p","u","t","e","r">>,
      <<"m","o","n","i","t","o","r">>,
      <<"s","c","r","e","e","n">>,
      <<"d","i","s","p","l","a","y">>,
      <<"p","c">>,
      <<"g","l","a","s","s">>,
      <<"h","i","t","b","o","x">> }

\* The substrings tested by handleInput, revision "controller".
AllowListController ==
    AllowListKeyframe \cup
    { <<"b","e","z","e","l">>, <<"s","t","a","n","d">> }

\* TOUCH_TARGETS of MobileConfig.ts.
TOUCH_TARGETS ==
    AllowListController \cup
    { <<"c","o","m","p","u","t","e","r","-","s","c","r","e","e","n","-",
        "h","i","t","b","o","x">> }

isClickableComputerPart(objectName) ==
    \E target \in TOUCH_TARGETS : includes(toLowerCase(objectName), target)

\* Names of scene objects a ray may meet first.
NameHitbox ==
    <<"c","o","m","p","u","t","e","r","-","s","c","r","e","e","n","-",
      "h","i","t","b","o","x">>
NameWall == <<"w","a","l","l","-","0","1">>
NameBezel == <<"B","e","z","e","l","-","F","r","o","n","t">>
NameTower == <<"P","C","-","T","o","w","e","r">>
\* The planes MonitorScreen adds to the scene carry no name.
NameUnnamed == << >>

ObjectNames == { NameHitbox, NameWall, NameBezel, NameTower, NameUnnamed }

\* raycaster.intersectObjects(...): the names of the objects met, nearest
\* first; only the nearest is read, so at most one is kept.
Intersections == { << >> } \cup { <<n>> : n \in ObjectNames }

------------------------------------------------------------------------------
\* Keyframes and poses.

CameraKey == { "idle", "monitor", "loading", "desk", "orbitControlsStart" }

\* A vector of keyframe k.  For "monitor" the depth z is the fraction n/d and
\* s = 1 marks the controller's mobile shift (z + 600, y - 50); for the
\* others n is the sample of the procedural rule (0 = the authored vector).
Vec(k, n, d, s) == [k |-> k, n |-> n, d |-> d, s |-> s]

MOBILE_BREAKPOINT == 768
MonitorBaseZ == 3200
MonitorAspectGain == 200
MonitorDesktopZ == 1300

RECURSIVE GCD(_, _)
GCD(a, b) == IF b = 0 THEN a ELSE GCD(b, a % b)

\* The distance that grows with the aspect ratio instead of its inverse.
MobileDistanceByAspect(base, sizes) ==
    LET num == base * sizes.height + MonitorAspectGain * sizes.width
        g   == GCD(num, sizes.height)
    IN  IF g = 0 THEN [n |-> 0, d |-> 0]
        ELSE [n |-> num \div g, d |-> sizes.height \div g]

\* z = base + (1 / aspect) * 200 with aspect = width / height, as a reduced
\* fraction.  A width of 0 gives aspect 0 and 1 / aspect = Infinity, kept as
\* n / 0; width and height both 0 give NaN, kept as 0 / 0; a height of 0
\* alone gives aspect Infinity and 1 / aspect = 0.
MobileDistance(base, sizes) ==
    LET num == base * sizes.width + MonitorAspectGain * sizes.height
        g   == GCD(num, sizes.width)
    IN  IF g = 0 THEN [n |-> 0, d |-> 0]
        ELSE [n |-> num \div g, d |-> sizes.width \div g]

\* BASE_Z of the earlier MobileConfig (unnamed/part_000).
EarlierBaseZ == 2200

\* getMobileMonitorPosition of MobileConfig.ts: the z of the vector returned.
getMobileMonitorPosition(sz) == MobileDistance(MonitorBaseZ, sz)

\* getMobileMonitorPosition of the earlier MobileConfig.
getMobileMonitorPosition_earlier(sz) == MobileDistance(EarlierBaseZ, sz)

keys ==
    [ key \in CameraKey |->
        [ position   |-> IF key = "monitor"
                         THEN Vec("monitor", MonitorDesktopZ, 1, 0)
                         ELSE Vec(key, 0, 1, 0),
          focalPoint |-> Vec(key, 0, 1, 0) ] ]

\* Samples of the sinusoids of IdleKeyframe.update (a function of
\* time.elapsed) and of the smoothed parallax of DeskKeyframe.update; the
\* static mobile pose of the desk is sample 1.
IdleSamples == { 1 }
DeskParallaxSamples == { 2 }

\* MonitorKeyframe.update that takes the breakpoint itself for narrow.
MonitorKeyframe_updateInclusive(s, kf) ==
    LET isNarrow == s.sizes.width <= 768
        z == IF isNarrow
             THEN MobileDistance(MonitorBaseZ, s.sizes)
             ELSE [n |-> MonitorDesktopZ, d |-> 1]
    IN  [kf EXCEPT !.position = Vec("monitor", z.n, z.d, 0)]

MonitorKeyframe_update(s, kf) ==
    LET isMobile == s.sizes.width < 768
        z == IF isMobile
             THEN MobileDistance(MonitorBaseZ, s.sizes)
             ELSE [n |-> MonitorDesktopZ, d |-> 1]
    IN  [kf EXCEPT !.position = Vec("monitor", z.n, z.d, 0)]

DeskKeyframe_update(s, kf, sample) ==
    LET isMobile == s.sizes.width < 768
        n == IF isMobile THEN 1 ELSE sample
    IN  [kf EXCEPT !.position = Vec("desk", n, 1, 0),
                   !.focalPoint = Vec("desk", n, 1, 0)]

\* IdleKeyframe.update that adds the sway to the position it finds.
IdleKeyframe_updateAccumulating(kf, sample) ==
    [kf EXCEPT !.position = Vec("idle", kf.position.n + sample, 1, 0)]

IdleKeyframe_update(kf, sample) ==
    [kf EXCEPT !.position = Vec("idle", sample, 1, 0)]

\* The arithmetic of DeskKeyframe.update in fixed point: Scale units to the
\* scene unit (and to the pixel), products rounded down.
Scale == 10

\* The floor of Math.sqrt(n), for 0 <= n < 2^31.
RECURSIVE SqrtIn(_, _, _)
SqrtIn(n, lo, hi) ==
    IF lo = hi THEN lo
    ELSE LET mid == (lo + hi + 1) \div 2
         IN  IF mid * mid <= n THEN SqrtIn(n, mid, hi) ELSE SqrtIn(n, lo, mid - 1)

Sqrt(n) == SqrtIn(n, 0, 46340)

\* MonitorScreen.position and the dimming plane's position, maxOffset - 5 in
\* front of it (maxOffset is 24 * 4, the smudge layer's).
ScreenPosition == [x |-> 0, y |-> 950, z |-> 255]

DimmingPlanePosition == [x |-> 0, y |-> 950, z |-> 255 + (24 * 4 - 5)]

LengthSq(a, b) ==
    (a.x - b.x) * (a.x - b.x) + (a.y - b.y) * (a.y - b.y)
        + (a.z - b.z) * (a.z - b.z)

\* dot of MonitorScreen.update, in thousandths: the z of the normalized
\* vector from the screen to the camera (normalize leaves the zero vector).
viewDot(camPos) ==
    LET len == Sqrt(LengthSq(camPos, ScreenPosition))
    IN  IF len = 0 THEN 0
        ELSE ((camPos.z - ScreenPosition.z) * 1000) \div len

\* distance of MonitorScreen.update.
planeDistance(camPos) == Sqrt(LengthSq(camPos, DimmingPlanePosition))

\* -Infinity, as a fraction (n over d) like the finite values.
NegInfinity == [n |-> -1, d |-> 0]

\* The opacity with the inverse-distance term taken as it is, not
\* subtracted from one.
dimOpacityInverted(distance, dot) ==
    IF distance = 0 THEN NegInfinity
    ELSE [ n |-> 7 * ((10000 * 1000) \div distance + (1000 - dot)),
           d |-> 1 ]

\* (1 - opacity) * DIM_FACTOR + (1 - dot) * DIM_FACTOR in ten-thousandths,
\* opacity being 1 / (distance / 10000).
dimOpacity(distance, dot) ==
    IF distance = 0 THEN NegInfinity
    ELSE [ n |-> 7 * (((distance - 10000) * 1000) \div distance + (1000 - dot)),
           d |-> 1 ]

\* MonitorScreen.update.
MonitorScreen_update(d) ==
    [d EXCEPT !.opacity = dimOpacity(planeDistance(d.camPos), viewDot(d.camPos))]

\* targetPos and targetFoc after construction: copies of keys.desk.
DeskOrigin ==
    [ pos |-> [x |-> 0, y |-> 1600 * Scale, z |-> 3200 * Scale],
      foc |-> [x |-> 0, y |-> 750 * Scale] ]

\* prev + (goal - prev) * rate, the rate in hundredths.
Smooth(prev, goal, rate) == prev + ((goal - prev) * rate) \div 100

\* DeskKeyframe.update without the limit on the height.
DeskKeyframe_parallaxWithoutFloor(d, m, sz) ==
    LET isNarrow == sz.width < 768
        goalX == m.x * Scale - (sz.width * Scale) \div 2
    IN  IF isNarrow
        THEN [ pos |-> [x |-> 0, y |-> 1800 * Scale, z |-> 5200 * Scale],
               foc |-> [x |-> 0, y |-> 600 * Scale] ]
        ELSE [ pos |-> [ x |-> Smooth(d.pos.x, goalX, 1),
                         y |-> Smooth(d.pos.y, (2 * sz.height - m.y) * Scale, 1),
                         z |-> DeskOrigin.pos.z ],
               foc |-> [ x |-> Smooth(d.foc.x, goalX, 5),
                         y |-> Smooth(d.foc.y, (sz.height - m.y) * Scale, 5) ] ]

\* DeskKeyframe.update that follows the pointer on every viewport.
DeskKeyframe_parallaxOnNarrow(d, m, sz) ==
    LET goalX == m.x * Scale - (sz.width * Scale) \div 2
        posY == Smooth(d.pos.y, (2 * sz.height - m.y) * Scale, 1)
    IN  [ pos |-> [ x |-> Smooth(d.pos.x, goalX, 1),
                    y |-> IF posY < 1200 * Scale THEN 1200 * Scale ELSE posY,
                    z |-> DeskOrigin.pos.z ],
          foc |-> [ x |-> Smooth(d.foc.x, goalX, 5),
                    y |-> Smooth(d.foc.y, (sz.height - m.y) * Scale, 5) ] ]

\* DeskKeyframe.update that smooths the focal point and leaves the position
\* where it was.
DeskKeyframe_parallaxFocalPointOnly(d, m, sz) ==
    LET isNarrow == sz.width < 768
        goalX == m.x * Scale - (sz.width * Scale) \div 2
    IN  IF isNarrow
        THEN [ pos |-> [x |-> 0, y |-> 1800 * Scale, z |-> 5200 * Scale],
               foc |-> [x |-> 0, y |-> 600 * Scale] ]
        ELSE [ pos |-> d.pos,
               foc |-> [ x |-> Smooth(d.foc.x, goalX, 5),
                         y |-> Smooth(d.foc.y, (sz.height - m.y) * Scale, 5) ] ]

DeskKeyframe_parallax(d, m, sz) ==
    LET isNarrow == sz.width < 768
        goalX == m.x * Scale - (sz.width * Scale) \div 2
        posY == Smooth(d.pos.y, (2 * sz.height - m.y) * Scale, 1)
    IN  IF isNarrow
        THEN [ pos |-> [x |-> 0, y |-> 1800 * Scale, z |-> 5200 * Scale],
               foc |-> [x |-> 0, y |-> 600 * Scale] ]
        ELSE [ pos |-> [ x |-> Smooth(d.pos.x, goalX, 1),
                         y |-> IF posY < 1200 * Scale THEN 1200 * Scale ELSE posY,
                         z |-> DeskOrigin.pos.z ],
               foc |-> [ x |-> Smooth(d.foc.x, goalX, 5),
                         y |-> Smooth(d.foc.y, (sz.height - m.y) * Scale, 5) ] ]

\* The value an unfinished tween writes into its object.
Mid(tween, elapsed) ==
    [k |-> "mid", to |-> tween.to, elapsed |-> elapsed,
     duration |-> tween.duration]

------------------------------------------------------------------------------
\* Bounds of the model.

\* How many tweens may be in flight when resize adds one more.
MaxTweens == 3

\* Frame intervals, in ms.
FrameDeltas == { 500 }

Viewports ==
    { [width |-> 375, height |-> 667],
      [width |-> 768, height |-> 1024] }

------------------------------------------------------------------------------
VARIABLES
    reframe,            \* which Camera revision runs
    overlay,            \* which MonitorScreen revision runs
    sizes,              \* Sizes: the viewport
    currentKeyframe,
    targetKeyframe,
    freeCam,
    position,           \* Camera.position
    focalPoint,         \* Camera.focalPoint
    instance,           \* the THREE.PerspectiveCamera, which OrbitControls moves
    keyframes,          \* live position / focalPoint of every keyframe
    tweens,             \* the tweens TWEEN holds, in the order started
    webglPointerEvents, \* style.pointerEvents of #webgl
    screen,             \* MonitorScreen's fields
    mouse,              \* application.mouse: the pointer, in client pixels
    desk,               \* DeskKeyframe.targetPos and targetFoc, as numbers
    messageListeners,   \* how many 'message' listeners iframe.onload has
                        \* added to the window
    dimmer              \* the render camera's coordinates and the opacity
                        \* of the dimming plane's material

vars ==
    << reframe, overlay, sizes, currentKeyframe, targetKeyframe, freeCam,
       position, focalPoint, instance, keyframes, tweens,
       webglPointerEvents, screen, mouse, desk, messageListeners,
       dimmer >>

\* What one handler run did, kept beside the state while it runs.
EmptyLog ==
    [ trig |-> << >>,      \* Camera.trigger(name) calls
      ui |-> << >>,        \* UIEventBus.dispatch(name) calls
      req |-> << >>,       \* transition(key) calls
      started |-> << >>,   \* those that were not a no-op
      removed |-> << >>,   \* the tweens TWEEN.removeAll() discarded
      done |-> << >>,      \* onComplete handlers that ran
      cb |-> << >> ]       \* completion callbacks that ran, with the
                           \* currentKeyframe and targetKeyframe they saw

\* The program state as one record, for the operators below.
State ==
    [ reframe |-> reframe, overlay |-> overlay, sizes |-> sizes,
      currentKeyframe |-> currentKeyframe, targetKeyframe |-> targetKeyframe,
      freeCam |-> freeCam, position |-> position, focalPoint |-> focalPoint,
      instance |-> instance,
      keyframes |-> keyframes, tweens |-> tweens,
      webglPointerEvents |-> webglPointerEvents, screen |-> screen,
      log |-> EmptyLog ]

CommitCamera(t) ==
    /\ reframe' = t.reframe
    /\ overlay' = t.overlay
    /\ sizes' = t.sizes
    /\ currentKeyframe' = t.currentKeyframe
    /\ targetKeyframe' = t.targetKeyframe
    /\ freeCam' = t.freeCam
    /\ position' = t.position
    /\ focalPoint' = t.focalPoint
    /\ instance' = t.instance
    /\ keyframes' = t.keyframes
    /\ tweens' = t.tweens
    /\ webglPointerEvents' = t.webglPointerEvents
    /\ screen' = t.screen

\* Under Spec the parallax of the desk is a sample (DeskParallaxSamples);
\* its arithmetic is followed under ViewpointSpec.
Commit(t) ==
    /\ CommitCamera(t)
    /\ UNCHANGED << mouse, desk, messageListeners, dimmer >>

------------------------------------------------------------------------------
\* Camera.ts: transition and the camera's own listeners.

DefaultDuration == 1000

Log(s, field, entry) == [s EXCEPT !.log[field] = Append(@, entry)]

\* Camera.isMobile (revision "controller").
isMobile(s) == s.sizes.width < 768

\* isMobile of MobileConfig.ts.
MobileConfig_isMobile(sz) == sz.width < MOBILE_BREAKPOINT

\* Camera.getMonitorPosition (revision "controller").
getMonitorPosition(s) ==
    LET originalPos == s.keyframes["monitor"].position
    IN  IF isMobile(s) THEN [originalPos EXCEPT !.s = 1] ELSE originalPos

Tween(object, to, duration, easing, key, callback) ==
    [ object |-> object, to |-> to, duration |-> duration, elapsed |-> 0,
      easing |-> easing, key |-> key, callback |-> callback ]

\* A removeAll that leaves the tweens in flight where they are.
removeInFlightKeepingTweens(s) == s

\* TWEEN.removeAll(), called by transition only when a target is set.
removeInFlight(s) ==
    IF s.targetKeyframe # Undefined
    THEN [s EXCEPT !.tweens = << >>, !.log.removed = @ \o s.tweens]
    ELSE s

\* transition without its first line, the return when the camera rests at
\* the key asked for.
transitionWithoutEarlyReturn(s, key, duration, easing, callback) ==
    LET s1 == removeInFlight(Log(Log(s, "req", key), "started", key))
        keyframe == s1.keyframes[key]
        posTween == Tween("position", keyframe.position, duration, easing, key,
                          callback)
        focTween == Tween("focalPoint", keyframe.focalPoint, duration, easing,
                          Undefined, "none")
    IN  [s1 EXCEPT !.currentKeyframe = Undefined,
                   !.targetKeyframe = key,
                   !.tweens = @ \o << posTween, focTween >>]

\* A transition that also writes the pose asked for at once.
transitionSnappingPose(s, key, duration, easing, callback) ==
    IF s.currentKeyframe = key
    THEN Log(s, "req", key)
    ELSE
        LET s1 == removeInFlight(Log(Log(s, "req", key), "started", key))
            keyframe == s1.keyframes[key]
            targetPos ==
                IF s1.reframe = "controller" /\ key = "monitor"
                THEN getMonitorPosition(s1)
                ELSE keyframe.position
            posTween == Tween("position", targetPos, duration, easing, key, callback)
            focTween == Tween("focalPoint", keyframe.focalPoint, duration, easing,
                              Undefined, "none")
        IN  [s1 EXCEPT !.currentKeyframe = Undefined,
                       !.targetKeyframe = key,
                       !.position = targetPos,
                       !.focalPoint = keyframe.focalPoint,
                       !.tweens = @ \o << posTween, focTween >>]

transition(s, key, duration, easing, callback) ==
    IF s.currentKeyframe = key
    THEN Log(s, "req", key)
    ELSE
        LET s1 == removeInFlight(Log(Log(s, "req", key), "started", key))
            keyframe == s1.keyframes[key]
            targetPos ==
                IF s1.reframe = "controller" /\ key = "monitor"
                THEN getMonitorPosition(s1)
                ELSE keyframe.position
            posTween == Tween("position", targetPos, duration, easing, key, callback)
            focTween == Tween("focalPoint", keyframe.focalPoint, duration, easing,
                              Undefined, "none")
        IN  [s1 EXCEPT !.currentKeyframe = Undefined,
                       !.targetKeyframe = key,
                       !.tweens = @ \o << posTween, focTween >>]

\* MonitorScreen.setupBlockerEvents (overlay "blocker"): the listeners on the
\* UI event bus.
\* A dispatch whose 'enterMonitor' listener leaves the blocker as it is.
UIEventBus_dispatchKeepingBlocker(s, name) ==
    LET s1 == Log(s, "ui", name)
    IN  IF s1.overlay = "blocker" /\ name = "leftMonitor"
        THEN [s1 EXCEPT !.screen.blockerPointerEvents = "auto"]
        ELSE s1

UIEventBus_dispatch(s, name) ==
    LET s1 == Log(s, "ui", name)
    IN  IF s1.overlay = "blocker"
        THEN [s1 EXCEPT !.screen.blockerPointerEvents =
                            IF name = "enterMonitor" THEN "none" ELSE "auto"]
        ELSE s1

\* The enterMonitor listener without its test of currentKeyframe.
onEnterMonitorUnguarded(s) ==
    UIEventBus_dispatch(
        transition(s, "monitor", 2000, "Bezier", "none"), "enterMonitor")

\* Camera.setMonitorListeners.
onEnterMonitor(s) ==
    IF s.currentKeyframe = "monitor"
    THEN s
    ELSE UIEventBus_dispatch(
             transition(s, "monitor", 2000, "Bezier", "none"), "enterMonitor")

\* The leftMonitor listener without its test of currentKeyframe.
onLeftMonitorUnguarded(s) ==
    UIEventBus_dispatch(
        transition(s, "desk", DefaultDuration, "Quintic.InOut", "none"),
        "leftMonitor")

onLeftMonitor(s) ==
    IF s.currentKeyframe = "desk"
    THEN s
    ELSE UIEventBus_dispatch(
             transition(s, "desk", DefaultDuration, "Quintic.InOut", "none"),
             "leftMonitor")

\* The listeners MonitorScreen (overlay "raycast") adds to the camera's events.
screenOnCameraEvent(s, name) ==
    IF s.overlay = "raycast"
    THEN [s EXCEPT !.screen.isMonitorActive = (name = "enterMonitor"),
                   !.screen.backButtonDisplay =
                       IF name = "enterMonitor" THEN "block" ELSE "none"]
    ELSE s

\* EventEmitter.trigger on the camera: its own listener was registered in
\* the constructor, before MonitorScreen's.
trigger(s, name) ==
    LET s1 == Log(s, "trig", name)
        s2 == IF name = "enterMonitor" THEN onEnterMonitor(s1) ELSE onLeftMonitor(s1)
    IN  screenOnCameraEvent(s2, name)

\* The test of the nearest hit in handleInput.
allowList(revision) ==
    IF revision = "controller" THEN AllowListController ELSE AllowListKeyframe

nameIsComputer(revision, name) ==
    \E sub \in allowList(revision) : includes(toLowerCase(name), sub)

ComputerNames ==
    [ revision \in { "keyframe", "controller" } |->
        { name \in ObjectNames : nameIsComputer(revision, name) } ]

clickedComputerOn(s, intersects) ==
    /\ Len(intersects) > 0
    /\ intersects[1] \in ComputerNames[s.reframe]

\* The DOM targets handleInput returns on: an IFRAME, an element inside a
\* button or a link, the element with id 'prevent-click'.
DomTargets ==
    { "IFRAME", "button", "back-button", "a", "prevent-click", "blocker", "canvas" }

\* The filter without its test for an enclosing link.
isFilteredTargetWithoutLink(target) ==
    \/ target = "IFRAME"
    \/ target \in { "button", "back-button" }
    \/ target = "prevent-click"

isFilteredTarget(target) ==
    \/ target = "IFRAME"
    \/ target \in { "button", "back-button" }
    \/ target = "a"
    \/ target = "prevent-click"

handleInput(s, target, intersects) ==
    IF isFilteredTarget(target) THEN s
    ELSE
        LET clickedComputer == clickedComputerOn(s, intersects)
        IN  IF s.currentKeyframe = "monitor"
            THEN IF clickedComputer THEN s ELSE trigger(s, "leftMonitor")
            ELSE IF clickedComputer
            THEN trigger(s, "enterMonitor")
            ELSE IF s.currentKeyframe = "idle" \/ s.targetKeyframe = "idle"
            THEN transition(s, "desk", DefaultDuration, "Quintic.InOut", "none")
            ELSE IF s.currentKeyframe = "desk" \/ s.targetKeyframe = "desk"
            THEN transition(s, "idle", DefaultDuration, "Quintic.InOut", "none")
            ELSE s

\* OrbitControls.update(): aims the camera at its target (panning is
\* disabled, so the target stays the authored one).  A drag is applied by
\* the controls' own pointer handler, see OrbitDrag.
OrbitFree == Vec("orbit", 1, 1, 0)

orbitControls_update(s) ==
    [s EXCEPT !.instance.lookAt = keys["orbitControlsStart"].focalPoint]

\* The freeCamToggle listener that leaves freeCam as it is when toggled off.
onFreeCamToggleKeepingFreeCam(s, toggle) ==
    IF toggle
    THEN [transition(s, "orbitControlsStart", 750, "Bezier", "freeCam")
             EXCEPT !.webglPointerEvents = "auto"]
    ELSE [transition(s, "idle", 4000, "Exponential.Out", "none")
             EXCEPT !.webglPointerEvents = "none"]

\* Camera.setFreeCamListeners.
onFreeCamToggle(s, toggle) ==
    IF toggle
    THEN [transition(s, "orbitControlsStart", 750, "Bezier", "freeCam")
             EXCEPT !.webglPointerEvents = "auto"]
    ELSE [transition([s EXCEPT !.freeCam = FALSE], "idle", 4000,
                     "Exponential.Out", "none")
             EXCEPT !.webglPointerEvents = "none"]

\* The completion callback of the free-look transition.
freeCamCallback(s) ==
    LET s1 == [s EXCEPT !.instance.position =
                            s.keyframes["orbitControlsStart"].position]
    IN  [orbitControls_update(s1) EXCEPT !.freeCam = TRUE]

\* Camera.setPostLoadTransition.
onLoadingScreenDone(s) ==
    transition(s, "idle", 2500, "Exponential.Out", "none")

\* Camera.resize.
resize(s, viewport) ==
    LET s1 == [s EXCEPT !.sizes = viewport, !.instance.aspect = viewport]
    IN  IF s1.reframe = "controller" /\ s1.currentKeyframe = "monitor"
        THEN [s1 EXCEPT !.tweens =
                 Append(@, Tween("position", getMonitorPosition(s1), 500,
                                 "Quadratic.Out", Undefined, "none"))]
        ELSE s1

------------------------------------------------------------------------------
\* Camera.update, once per frame.

\* onComplete that runs the callback before it stores the keyframe reached.
completeCallbackFirst(s, tween) ==
    IF tween.key = Undefined THEN s
    ELSE
        LET ran == [ key |-> tween.key,
                     currentKeyframe |-> s.currentKeyframe,
                     targetKeyframe |-> s.targetKeyframe ]
            s1 == IF tween.callback = "freeCam"
                  THEN freeCamCallback(Log(s, "cb", ran))
                  ELSE s
        IN  Log([s1 EXCEPT !.currentKeyframe = tween.key,
                           !.targetKeyframe = Undefined],
                "done", tween.key)

\* onComplete that stores the keyframe reached and leaves targetKeyframe
\* set.
completeKeepingTarget(s, tween) ==
    IF tween.key = Undefined THEN s
    ELSE
        LET s1 == Log([s EXCEPT !.currentKeyframe = tween.key],
                      "done", tween.key)
            ran == [ key |-> tween.key,
                     currentKeyframe |-> s1.currentKeyframe,
                     targetKeyframe |-> s1.targetKeyframe ]
        IN  IF tween.callback = "freeCam"
            THEN freeCamCallback(Log(s1, "cb", ran))
            ELSE s1

\* onComplete of a tween.
complete(s, tween) ==
    IF tween.key = Undefined THEN s
    ELSE
        LET s1 == Log([s EXCEPT !.currentKeyframe = tween.key,
                               !.targetKeyframe = Undefined],
                      "done", tween.key)
            ran == [ key |-> tween.key,
                     currentKeyframe |-> s1.currentKeyframe,
                     targetKeyframe |-> s1.targetKeyframe ]
        IN  IF tween.callback = "freeCam"
            THEN freeCamCallback(Log(s1, "cb", ran))
            ELSE s1

\* A tween's update that takes the end of the duration for not yet reached.
tweenUpdateNeverFinished(s, tween, dt) ==
    LET elapsed == IF tween.elapsed + dt >= tween.duration
                   THEN tween.duration ELSE tween.elapsed + dt
        s1 == IF tween.object = "position"
              THEN [s EXCEPT !.position = Mid(tween, elapsed)]
              ELSE [s EXCEPT !.focalPoint = Mid(tween, elapsed)]
    IN  [s1 EXCEPT !.tweens = Append(@, [tween EXCEPT !.elapsed = elapsed])]

\* One tween's update(time): writes its object; at the end of its duration
\* writes the end value, runs onComplete and leaves the group.
tweenUpdate(s, tween, dt) ==
    LET elapsed == IF tween.elapsed + dt >= tween.duration
                   THEN tween.duration ELSE tween.elapsed + dt
        finished == elapsed = tween.duration
        value == IF finished THEN tween.to ELSE Mid(tween, elapsed)
        s1 == IF tween.object = "position"
              THEN [s EXCEPT !.position = value]
              ELSE [s EXCEPT !.focalPoint = value]
    IN  IF finished
        THEN complete(s1, tween)
        ELSE [s1 EXCEPT !.tweens = Append(@, [tween EXCEPT !.elapsed = elapsed])]

RECURSIVE tweenUpdateAll(_, _, _)
tweenUpdateAll(s, pending, dt) ==
    IF pending = << >> THEN s
    ELSE tweenUpdateAll(tweenUpdate(s, Head(pending), dt), Tail(pending), dt)

\* TWEEN.update(): every tween of the group, in the order started.
TWEEN_update(s, dt) ==
    tweenUpdateAll([s EXCEPT !.tweens = << >>], s.tweens, dt)

\* The loop over the keyframes with a loading keyframe that sways as idle
\* does.
keyframesUpdateAnimatingLoading(s, idleSample, deskSample) ==
    [s EXCEPT !.keyframes =
        [ key \in CameraKey |->
            CASE key = "idle" -> IdleKeyframe_update(s.keyframes[key], idleSample)
              [] key = "monitor" -> MonitorKeyframe_update(s, s.keyframes[key])
              [] key = "desk" -> DeskKeyframe_update(s, s.keyframes[key], deskSample)
              [] key = "loading" ->
                     [s.keyframes[key] EXCEPT
                         !.position = Vec("loading", idleSample, 1, 0)]
              [] OTHER -> s.keyframes[key] ]]

\* The loop over the keyframes with orbitControlsStart holding the vector of
\* idle instead of one of its own.
keyframesUpdateSharingVectors(s, idleSample, deskSample) ==
    [s EXCEPT !.keyframes =
        [ key \in CameraKey |->
            CASE key = "idle" -> IdleKeyframe_update(s.keyframes[key], idleSample)
              [] key = "monitor" -> MonitorKeyframe_update(s, s.keyframes[key])
              [] key = "desk" -> DeskKeyframe_update(s, s.keyframes[key], deskSample)
              [] key = "orbitControlsStart" ->
                     [s.keyframes[key] EXCEPT !.position =
                         IdleKeyframe_update(s.keyframes["idle"], idleSample).position]
              [] OTHER -> s.keyframes[key] ]]

keyframesUpdate(s, idleSample, deskSample) ==
    [s EXCEPT !.keyframes =
        [ key \in CameraKey |->
            CASE key = "idle" -> IdleKeyframe_update(s.keyframes[key], idleSample)
              [] key = "monitor" -> MonitorKeyframe_update(s, s.keyframes[key])
              [] key = "desk" -> DeskKeyframe_update(s, s.keyframes[key], deskSample)
              [] OTHER -> s.keyframes[key] ]]

\* The frame update without the return that ends the free-look branch.
updateWithoutFreeLookReturn(s, dt, idleSample, deskSample) ==
    LET s1 == TWEEN_update(s, dt)
        s1a == IF s1.freeCam
               THEN orbitControls_update(
                        [s1 EXCEPT !.position = s1.instance.position,
                                   !.focalPoint = keys["orbitControlsStart"].focalPoint])
               ELSE s1
        s2 == keyframesUpdate(s1a, idleSample, deskSample)
        s3 == IF s2.currentKeyframe # Undefined /\ s2.currentKeyframe # "monitor"
              THEN [s2 EXCEPT
                       !.position = s2.keyframes[s2.currentKeyframe].position,
                       !.focalPoint = s2.keyframes[s2.currentKeyframe].focalPoint]
              ELSE s2
    IN  [s3 EXCEPT !.instance.position = s3.position,
                   !.instance.lookAt = s3.focalPoint]

\* The frame update without the copy of the current keyframe's live pose.
updateWithoutKeyframeCopy(s, dt, idleSample, deskSample) ==
    LET s1 == TWEEN_update(s, dt)
    IN  IF s1.freeCam
        THEN orbitControls_update(
                 [s1 EXCEPT !.position = s1.instance.position,
                            !.focalPoint = keys["orbitControlsStart"].focalPoint])
        ELSE
            LET s2 == keyframesUpdate(s1, idleSample, deskSample)
            IN  [s2 EXCEPT !.instance.position = s2.position,
                           !.instance.lookAt = s2.focalPoint]
\* The frame update that copies the current keyframe's live pose at monitor
\* too.
updateCopyingAtMonitor(s, dt, idleSample, deskSample) ==
    LET s1 == TWEEN_update(s, dt)
    IN  IF s1.freeCam
        THEN orbitControls_update(
                 [s1 EXCEPT !.position = s1.instance.position,
                            !.focalPoint = keys["orbitControlsStart"].focalPoint])
        ELSE
            LET s2 == keyframesUpdate(s1, idleSample, deskSample)
                s3 == IF s2.currentKeyframe # Undefined
                      THEN [s2 EXCEPT
                               !.position = s2.keyframes[s2.currentKeyframe].position,
                               !.focalPoint = s2.keyframes[s2.currentKeyframe].focalPoint]
                      ELSE s2
            IN  [s3 EXCEPT !.instance.position = s3.position,
                           !.instance.lookAt = s3.focalPoint]


update(s, dt, idleSample, deskSample) ==
    LET s1 == TWEEN_update(s, dt)
    IN  IF s1.freeCam
        THEN orbitControls_update(
                 [s1 EXCEPT !.position = s1.instance.position,
                            !.focalPoint = keys["orbitControlsStart"].focalPoint])
        ELSE
            LET s2 == keyframesUpdate(s1, idleSample, deskSample)
                s3 == IF s2.currentKeyframe # Undefined /\ s2.currentKeyframe # "monitor"
                      THEN [s2 EXCEPT
                               !.position = s2.keyframes[s2.currentKeyframe].position,
                               !.focalPoint = s2.keyframes[s2.currentKeyframe].focalPoint]
                      ELSE s2
            IN  [s3 EXCEPT !.instance.position = s3.position,
                           !.instance.lookAt = s3.focalPoint]

------------------------------------------------------------------------------
\* MonitorScreen: the document listeners of initializeScreenEvents and the
\* controls it creates.

\* mousedown without its test for the back button.
raycastMouseDownWithoutButtonGuard(s, target, onScreen) ==
    IF onScreen /\ ~s.screen.isMonitorActive
    THEN [trigger(s, "enterMonitor") EXCEPT
             !.screen.inComputer = TRUE,
             !.screen.mouseClickInProgress = TRUE,
             !.screen.prevInComputer = TRUE]
    ELSE IF ~onScreen /\ s.screen.isMonitorActive
    THEN [trigger(s, "leftMonitor") EXCEPT !.screen.isMonitorActive = FALSE]
    ELSE [s EXCEPT !.screen.inComputer = onScreen \/ @,
                   !.screen.mouseClickInProgress = TRUE,
                   !.screen.prevInComputer = onScreen \/ s.screen.inComputer]

\* Overlay "raycast": mousedown.  onScreen is isClickOnScreenMesh(x, y).
raycastMouseDown(s, target, onScreen) ==
    IF target = "back-button" THEN s
    ELSE IF onScreen /\ ~s.screen.isMonitorActive
    THEN [trigger(s, "enterMonitor") EXCEPT
             !.screen.inComputer = TRUE,
             !.screen.mouseClickInProgress = TRUE,
             !.screen.prevInComputer = TRUE]
    ELSE IF ~onScreen /\ s.screen.isMonitorActive
    THEN [trigger(s, "leftMonitor") EXCEPT !.screen.isMonitorActive = FALSE]
    ELSE [s EXCEPT !.screen.inComputer = onScreen \/ @,
                   !.screen.mouseClickInProgress = TRUE,
                   !.screen.prevInComputer = onScreen \/ s.screen.inComputer]

\* Overlay "raycast": mousemove.
raycastMouseMove(s, onScreen) ==
    LET prev == s.screen.prevInComputer
        click == s.screen.mouseClickInProgress
        s1 == IF onScreen /\ ~prev THEN trigger(s, "enterMonitor") ELSE s
        s2 == IF ~onScreen /\ prev /\ ~click THEN trigger(s1, "leftMonitor") ELSE s1
    IN  [s2 EXCEPT !.screen.inComputer = onScreen,
                   !.screen.shouldLeaveMonitor = (~onScreen /\ click /\ prev),
                   !.screen.prevInComputer = onScreen]

\* Overlay "raycast": mouseup.
raycastMouseUp(s) ==
    LET s1 == IF s.screen.shouldLeaveMonitor THEN trigger(s, "leftMonitor") ELSE s
    IN  [s1 EXCEPT !.screen.shouldLeaveMonitor = FALSE,
                   !.screen.mouseClickInProgress = FALSE,
                   !.screen.prevInComputer = s1.screen.inComputer]

\* Overlay "raycast": touchstart.
raycastTouchStart(s, onScreen) ==
    IF onScreen /\ ~s.screen.isMonitorActive
    THEN [trigger(s, "enterMonitor") EXCEPT !.screen.isMonitorActive = TRUE]
    ELSE IF ~onScreen /\ s.screen.isMonitorActive
    THEN [trigger(s, "leftMonitor") EXCEPT !.screen.isMonitorActive = FALSE]
    ELSE s

\* Overlay "raycast": touchmove makes the same test as touchstart.
raycastTouchMove(s, onScreen) == raycastTouchStart(s, onScreen)

\* Overlay "raycast": click and touchend of the back button.
backButtonActivate(s) ==
    [trigger(s, "leftMonitor") EXCEPT !.screen.isMonitorActive = FALSE,
                                      !.screen.backButtonDisplay = "none"]

\* Overlay "blocker": its mousemove, mousedown and mouseup listeners only
\* store inComputer, prevInComputer and mouseClickInProgress, which nothing
\* in that revision reads; they are left out.

\* Overlay "blocker": blocker.onclick.
blockerOnClick(s) == trigger(s, "enterMonitor")

------------------------------------------------------------------------------
\* The state after construction (Camera, createControls, MonitorScreen).

Origin == Vec("origin", 0, 1, 0)

\* The pairings of a camera revision with an overlay revision.  Each
\* revision is in one pairing at least; the raycast overlay is paired with
\* the revision it shares Camera.ts with.
Builds ==
    { << "keyframe", "blocker" >>, << "controller", "blocker" >>,
      << "keyframe", "raycast" >> }

Construct ==
    /\ \E build \in Builds : reframe = build[1] /\ overlay = build[2]
    /\ currentKeyframe = "loading"
    /\ targetKeyframe = Undefined
    /\ freeCam = FALSE
    /\ position = Origin
    /\ focalPoint = Origin
    /\ instance = [ position |-> keys["orbitControlsStart"].position,
                    lookAt |-> keys["orbitControlsStart"].focalPoint,
                    aspect |-> sizes ]
    /\ keyframes = keys
    /\ tweens = << >>
    /\ webglPointerEvents = "none"
    /\ screen = [ isMonitorActive |-> FALSE,
                  backButtonDisplay |-> "none",
                  inComputer |-> FALSE,
                  prevInComputer |-> FALSE,
                  mouseClickInProgress |-> FALSE,
                  shouldLeaveMonitor |-> FALSE,
                  blockerPointerEvents |-> "auto" ]
    /\ desk = DeskOrigin
    /\ dimmer = [ camPos |-> [x |-> -15000, y |-> 10000, z |-> 15000],
                  opacity |-> [n |-> 10000, d |-> 1] ]

\* The embedded frame has loaded once.
Init ==
    /\ sizes \in Viewports
    /\ mouse = [x |-> 0, y |-> 0]
    /\ messageListeners = 1
    /\ Construct

\* Which element a pointer event can have as its target: the back button
\* only while displayed, the blocker only while it takes pointer events.
TargetPresent(s, target) ==
    /\ target = "back-button" =>
           s.overlay = "raycast" /\ s.screen.backButtonDisplay = "block"
    /\ target = "blocker" =>
           s.overlay = "blocker" /\ s.screen.blockerPointerEvents = "auto"

\* The inputs of a pointer-down: the target, the nearest object met by the
\* camera's ray and whether MonitorScreen's ray meets the screen mesh.  A
\* cast is an input only where a handler reaches it.  The hitbox is the
\* plane over the screen (MobileConfig.ts, TOUCH_TARGETS), so a ray that
\* meets it meets the screen mesh; the screen mesh is a child of the scene
\* (Camera.ts 1128), so a ray that meets it is not without a hit.  For a
\* filtered target handleInput casts no ray, MonitorScreen still does.
PointerInputs(s) ==
    { in \in DomTargets \X Intersections \X BOOLEAN :
        /\ TargetPresent(s, in[1])
        /\ isFilteredTarget(in[1]) => in[2] = << >>
        /\ (s.overlay # "raycast" \/ in[1] = "back-button") => in[3] = FALSE
        /\ (s.overlay = "raycast" /\ in[2] = << NameHitbox >>) => in[3] = TRUE
        /\ (in[3] /\ ~isFilteredTarget(in[1])) => in[2] # << >> }

\* mousedown on the document: Camera's listener, then MonitorScreen's.
mouseDown(s, target, intersects, onScreen) ==
    LET s1 == handleInput(s, target, intersects)
    IN  IF s.overlay = "raycast" THEN raycastMouseDown(s1, target, onScreen) ELSE s1

MouseDownResults(s) ==
    { mouseDown(s, in[1], in[2], in[3]) : in \in PointerInputs(s) }

MouseDown == \E t \in MouseDownResults(State) : Commit(t)

\* touchstart on the document.  The back button stops the propagation of its
\* own touchstart, so that target never reaches these listeners.
touchStart(s, target, intersects, onScreen) ==
    LET s1 == handleInput(s, target, intersects)
    IN  IF s.overlay = "raycast" THEN raycastTouchStart(s1, onScreen) ELSE s1

TouchStartResults(s) ==
    { touchStart(s, in[1], in[2], in[3]) :
        in \in { i \in PointerInputs(s) : i[1] # "back-button" } }

TouchStart == \E t \in TouchStartResults(State) : Commit(t)

MouseMoveResults(s) ==
    IF s.overlay = "raycast"
    THEN { raycastMouseMove(s, onScreen) : onScreen \in BOOLEAN } ELSE { }

MouseMove == \E t \in MouseMoveResults(State) : Commit(t)

MouseUpResults(s) ==
    IF s.overlay = "raycast" THEN { raycastMouseUp(s) } ELSE { }

MouseUp == \E t \in MouseUpResults(State) : Commit(t)

TouchMoveResults(s) ==
    IF s.overlay = "raycast"
    THEN { raycastTouchMove(s, onScreen) : onScreen \in BOOLEAN } ELSE { }

TouchMove == \E t \in TouchMoveResults(State) : Commit(t)

\* click or touchend on the back button.
BackButtonClickResults(s) ==
    IF TargetPresent(s, "back-button") THEN { backButtonActivate(s) } ELSE { }

BackButtonClick == \E t \in BackButtonClickResults(State) : Commit(t)

BlockerClickResults(s) ==
    IF TargetPresent(s, "blocker") THEN { blockerOnClick(s) } ELSE { }

BlockerClick == \E t \in BlockerClickResults(State) : Commit(t)

FreeCamToggleResults(s) ==
    { onFreeCamToggle(s, toggle) : toggle \in BOOLEAN }

FreeCamToggle == \E t \in FreeCamToggleResults(State) : Commit(t)

LoadingScreenDone ==
    Commit(onLoadingScreenDone(State))

\* The window takes another size.  MaxTweens caps the re-targeting tweens
\* that resizes at the monitor pile up.
ResizeResults(s) ==
    IF s.reframe = "controller" /\ s.currentKeyframe = "monitor"
       /\ Len(s.tweens) >= MaxTweens
    THEN { }
    ELSE { resize(s, viewport) : viewport \in Viewports \ { s.sizes } }

Resize == \E t \in ResizeResults(State) : Commit(t)

\* A drag on the canvas reaches OrbitControls only while #webgl takes
\* pointer events; the controls then move the camera they own.
orbitDrag(s) ==
    orbitControls_update([s EXCEPT !.instance.position = OrbitFree])

OrbitDrag ==
    /\ webglPointerEvents = "auto"
    /\ Commit(orbitDrag(State))

\* The frames that can follow: one per sample of the procedural keyframes.
TickResults(s) ==
    { update(s, in[1], in[2], in[3]) :
        in \in FrameDeltas \X IdleSamples \X DeskParallaxSamples }

Tick == \E t \in TickResults(State) : Commit(t)

Next ==
    \/ MouseDown
    \/ TouchStart
    \/ MouseMove
    \/ MouseUp
    \/ TouchMove
    \/ BackButtonClick
    \/ BlockerClick
    \/ FreeCamToggle
    \/ LoadingScreenDone
    \/ Resize
    \/ OrbitDrag
    \/ Tick

Spec == Init /\ [][Next]_vars

------------------------------------------------------------------------------
\* The viewpoints' own arithmetic.  The viewport and the pointer are drawn
\* at the start, degenerate and breakpoint sizes included, and held while
\* frames follow; time.elapsed is drawn at every frame.

ReframeViewports ==
    { [width |-> 0, height |-> 0],
      [width |-> 0, height |-> 667],
      [width |-> 375, height |-> 0],
      [width |-> 320, height |-> 667],
      [width |-> 375, height |-> 667],
      [width |-> 767, height |-> 667],
      [width |-> 768, height |-> 1024],
      [width |-> 769, height |-> 480],
      [width |-> 1024, height |-> 768] }

\* The corners of the viewport.
Pointers(sz) ==
    { [x |-> px, y |-> py] : px \in { 0, sz.width }, py \in { 0, sz.height } }

\* Samples of time.elapsed.
ElapsedSamples == { 1, 2 }

ViewpointInit ==
    /\ sizes \in ReframeViewports
    /\ mouse \in Pointers(sizes)
    /\ messageListeners = 1
    /\ Construct

\* One frame: Camera.update, and with it DeskKeyframe.update on the numbers.
ViewpointTick ==
    \E dt \in FrameDeltas, elapsed \in ElapsedSamples,
       deskSample \in DeskParallaxSamples :
        LET t == update(State, dt, elapsed, deskSample)
        IN  /\ CommitCamera(t)
            /\ mouse' = mouse
            /\ messageListeners' = messageListeners
            /\ dimmer' = dimmer
            /\ desk' = IF t.freeCam THEN desk
                       ELSE DeskKeyframe_parallax(desk, mouse, sizes)

ViewpointNext == ViewpointTick

ViewpointSpec == ViewpointInit /\ [][ViewpointNext]_vars

------------------------------------------------------------------------------
\* The message bridge of createIframe.  The embedded page posts what its
\* document sees; the listeners that iframe.onload adds to the window
\* dispatch it again on the iframe element, from where it bubbles to the
\* document's listeners.

IFRAME_SIZE == [w |-> 1280 - 32, h |-> 1024 - 32]

\* How many times the embedded frame loads.
MaxLoads == 2

\* event.data of the messages posted.
Messages ==
    { [type |-> "mousemove", clientX |-> 624, clientY |-> 496, key |-> Undefined],
      [type |-> "mousedown", clientX |-> 624, clientY |-> 496, key |-> Undefined],
      [type |-> "mouseup", clientX |-> 624, clientY |-> 496, key |-> Undefined],
      [type |-> "keydown", clientX |-> Undefined, clientY |-> Undefined, key |-> "a"],
      [type |-> "keyup", clientX |-> Undefined, clientY |-> Undefined, key |-> "a"] }

\* iframe.getBoundingClientRect(), in whole pixels.
ClientRects ==
    { [left |-> 0, top |-> 0, width |-> 1280, height |-> 1024],
      [left |-> 100, top |-> 50, width |-> 640, height |-> 512] }

\* Math.round(num / den + offset) for whole num, den > 0 and offset.
Round(num, den, offset) == (2 * num + den) \div (2 * den) + offset

\* The CustomEvent one listener builds from event.data.
CustomEvent(data, clRect) ==
    [ type |-> data.type,
      bubbles |-> TRUE,
      inComputer |-> TRUE,
      clientX |-> IF data.type = "mousemove"
                  THEN Round(data.clientX * clRect.width, IFRAME_SIZE.w, clRect.left)
                  ELSE Undefined,
      clientY |-> IF data.type = "mousemove"
                  THEN Round(data.clientY * clRect.height, IFRAME_SIZE.h, clRect.top)
                  ELSE Undefined,
      key |-> IF data.type \in { "keydown", "keyup" } THEN data.key ELSE Undefined ]

\* What iframe.dispatchEvent is called with for one message, every listener
\* in the order added.
onMessage(listeners, data, clRect) ==
    [ i \in 1..listeners |-> CustomEvent(data, clRect) ]

\* iframe.onload: one more listener on the window.
iframeOnload(listeners) == listeners + 1

\* One dispatched event at the document's listeners.  Its target is the
\* iframe; onScreen is what MonitorScreen's ray cast makes of its
\* coordinates.
documentDispatch(s, evt, onScreen) ==
    CASE evt.type = "mousedown" -> mouseDown(s, "IFRAME", << >>, onScreen)
      [] evt.type = "mousemove" ->
             IF s.overlay = "raycast" THEN raycastMouseMove(s, onScreen) ELSE s
      [] evt.type = "mouseup" ->
             IF s.overlay = "raycast" THEN raycastMouseUp(s) ELSE s
      [] OTHER -> s

RECURSIVE dispatchAll(_, _, _)
dispatchAll(s, events, onScreen) ==
    IF events = << >> THEN s
    ELSE dispatchAll(documentDispatch(s, Head(events), onScreen),
                     Tail(events), onScreen)

BridgeInit ==
    /\ sizes \in Viewports
    /\ mouse = [x |-> 0, y |-> 0]
    /\ messageListeners = 0
    /\ Construct

IframeLoad ==
    /\ messageListeners < MaxLoads
    /\ messageListeners' = iframeOnload(messageListeners)
    /\ UNCHANGED << reframe, overlay, sizes, currentKeyframe, targetKeyframe,
                    freeCam, position, focalPoint, instance, keyframes,
                    tweens, webglPointerEvents, screen, mouse, desk,
                    dimmer >>

Message ==
    \E data \in Messages, clRect \in ClientRects, onScreen \in BOOLEAN :
        /\ overlay # "raycast" => ~onScreen
        /\ Commit(dispatchAll(State, onMessage(messageListeners, data, clRect),
                              onScreen))

BridgeNext ==
    \/ IframeLoad
    \/ Message
    \/ LoadingScreenDone
    \/ Tick

BridgeSpec == BridgeInit /\ [][BridgeNext]_vars

------------------------------------------------------------------------------
\* The dimming plane.  The render camera stands at one of a few places and
\* MonitorScreen.update follows it.

\* Camera places: the authored monitor, desk, free-look and idle poses, the
\* screen's axis at several depths (the dimming plane itself among them),
\* and places off the axis at the distances of some of those.
DimCameras ==
    { [x |-> 0, y |-> 950, z |-> 1300],
      [x |-> 0, y |-> 1600, z |-> 3200],
      [x |-> -15000, y |-> 10000, z |-> 15000],
      [x |-> -20000, y |-> 12000, z |-> 20000],
      [x |-> 0, y |-> 950, z |-> 346],
      [x |-> 0, y |-> 950, z |-> 1346],
      [x |-> 0, y |-> 950, z |-> 5346],
      [x |-> 0, y |-> 950, z |-> 10346],
      [x |-> 0, y |-> 950, z |-> 20346],
      [x |-> 0, y |-> 950, z |-> -654],
      [x |-> 1000, y |-> 950, z |-> 346],
      [x |-> 3000, y |-> 950, z |-> 4346],
      [x |-> -6000, y |-> 8950, z |-> 346] }

DimmerInit ==
    /\ sizes \in Viewports
    /\ mouse = [x |-> 0, y |-> 0]
    /\ messageListeners = 1
    /\ Construct

CameraMoves ==
    /\ \E camPos \in DimCameras : dimmer' = [dimmer EXCEPT !.camPos = camPos]
    /\ UNCHANGED << reframe, overlay, sizes, currentKeyframe, targetKeyframe,
                    freeCam, position, focalPoint, instance, keyframes,
                    tweens, webglPointerEvents, screen, mouse, desk,
                    messageListeners >>

DimmerUpdate ==
    /\ dimmer' = MonitorScreen_update(dimmer)
    /\ UNCHANGED << reframe, overlay, sizes, currentKeyframe, targetKeyframe,
                    freeCam, position, focalPoint, instance, keyframes,
                    tweens, webglPointerEvents, screen, mouse, desk,
                    messageListeners >>

DimmerNext ==
    \/ CameraMoves
    \/ DimmerUpdate

DimmerSpec == DimmerInit /\ [][DimmerNext]_vars

------------------------------------------------------------------------------
\* Properties.  The operators below read the result of a handler on the
\* current state: the state it leaves and the log of what it did.

\* What every handler other than the frame update can leave.
EventResults(s) ==
    MouseDownResults(s) \cup TouchStartResults(s) \cup MouseMoveResults(s)
        \cup MouseUpResults(s) \cup TouchMoveResults(s)
        \cup BackButtonClickResults(s) \cup BlockerClickResults(s)
        \cup FreeCamToggleResults(s) \cup { onLoadingScreenDone(s) }
        \cup ResizeResults(s)
        \cup (IF s.webglPointerEvents = "auto" THEN { orbitDrag(s) } ELSE { })

SameCamera(s, t) ==
    /\ t.currentKeyframe = s.currentKeyframe
    /\ t.targetKeyframe = s.targetKeyframe
    /\ t.position = s.position
    /\ t.focalPoint = s.focalPoint
    /\ t.tweens = s.tweens

Last(seq) == seq[Len(seq)]

KeyedTweens(s) == { i \in 1..Len(s.tweens) : s.tweens[i].key # Undefined }

\* Frames enough for the longest transition (4000 ms) at the frame deltas.
MaxFrames == 8

\* Frames follow one another, with no event in between, until the camera
\* rests.
RECURSIVE Settle(_, _)
Settle(s, frames) ==
    IF frames = 0 \/ s.targetKeyframe = Undefined THEN s
    ELSE Settle(CHOOSE t \in TickResults(s) : TRUE, frames - 1)

NamedViewpoints == { "idle", "desk", "monitor" }

\* The pointer-downs that reach handleInput's ray cast.
UnfilteredInputs(s) == { in \in PointerInputs(s) : ~isFilteredTarget(in[1]) }

PointerDown(s, in) ==
    { mouseDown(s, in[1], in[2], in[3]), touchStart(s, in[1], in[2], in[3]) }

\* C1: last request wins.  When an event calls transition(B) while a
\* transition is in flight, then with frames following and no further event
\* the camera comes to rest at B: currentKeyframe = B, the render pose is B's
\* pose, only B's onComplete has run and no callback of the superseded
\* transition.
C1_LastRequestWins ==
    targetKeyframe # Undefined =>
        \A t \in EventResults(State) :
            t.log.started # << >> =>
                LET B == Last(t.log.started)
                    f == Settle([t EXCEPT !.log = EmptyLog], MaxFrames)
                IN  /\ f.currentKeyframe = B
                    /\ f.targetKeyframe = Undefined
                    /\ f.log.done = << B >>
                    /\ \A i \in 1..Len(f.log.cb) : f.log.cb[i].key = B
                    /\ f.position = IF B = "monitor" THEN t.tweens[1].to
                                    ELSE f.keyframes[B].position
                    /\ f.focalPoint = IF B = "monitor" THEN t.tweens[2].to
                                      ELSE f.keyframes[B].focalPoint

\* C2: while freeCam is true no transition is in flight and the camera rests
\* at orbitControlsStart, and no pointer or bus event that leaves freeCam
\* true makes currentKeyframe or targetKeyframe idle, desk or monitor.
C2_FreeCamExclusive ==
    freeCam =>
        /\ targetKeyframe = Undefined
        /\ currentKeyframe = "orbitControlsStart"
        /\ \A t \in EventResults(State) :
               t.freeCam =>
                   /\ t.currentKeyframe \notin NamedViewpoints
                   /\ t.targetKeyframe \notin NamedViewpoints

\* C3: right after an event whose call of transition(key) was not a no-op,
\* the only tweens active are the two that call created, whatever was active
\* before, the re-targeting tween of resize included.
C3_OnlyNewInterpolators ==
    \A t \in EventResults(State) :
        t.log.started # << >> =>
            /\ Len(t.tweens) = 2
            /\ t.tweens[1].object = "position"
            /\ t.tweens[1].key = Last(t.log.started)
            /\ t.tweens[1].elapsed = 0
            /\ t.tweens[2].object = "focalPoint"
            /\ t.tweens[2].elapsed = 0

\* C4: transition(key) called while currentKeyframe = key changes neither
\* currentKeyframe, targetKeyframe, position, focalPoint nor the active
\* tweens, and the callback passed never runs, at the call or in the frame
\* after; so for the listeners that call it at the keyframe they ask for.
C4_TransitionToCurrentIsNoOp ==
    \A key \in CameraKey :
        currentKeyframe = key =>
            /\ \A callback \in { "none", "freeCam" } :
                   LET t == transition(State, key, DefaultDuration,
                                       "Quintic.InOut", callback)
                   IN  /\ SameCamera(State, t)
                       /\ t.freeCam = freeCam
                       /\ t.log.started = << >>
                       /\ t.log.cb = << >>
                       /\ \A f \in TickResults(t) : f.log.cb = << >>
            /\ key = "orbitControlsStart" =>
                   SameCamera(State, onFreeCamToggle(State, TRUE))
            /\ key = "idle" => SameCamera(State, onLoadingScreenDone(State))

\* C4 witness: the camera rests at orbitControlsStart in free look and the
\* freeCamToggle listener calls transition for that keyframe.
C4_Witness ==
    /\ currentKeyframe = "orbitControlsStart"
    /\ freeCam
    /\ tweens = << >>
    /\ onFreeCamToggle(State, TRUE).log.req = << "orbitControlsStart" >>
    /\ onFreeCamToggle(State, TRUE).log.started = << >>

\* C5: a transition in flight keeps currentKeyframe undefined and
\* targetKeyframe at its key, from the event that started it on; the frame
\* in which it completes sets currentKeyframe to the key and clears
\* targetKeyframe before the callback runs; the callback runs once, in that
\* frame, and no tween of a superseded transition is left to run another.
C5_TransitionLifecycle ==
    /\ \A i \in KeyedTweens(State) :
           currentKeyframe = Undefined /\ targetKeyframe = tweens[i].key
    /\ targetKeyframe # Undefined =>
           currentKeyframe = Undefined /\ Cardinality(KeyedTweens(State)) = 1
    /\ \A t \in EventResults(State) :
           t.log.started # << >> =>
               /\ t.currentKeyframe = Undefined
               /\ t.targetKeyframe = Last(t.log.started)
               /\ t.log.done = << >>
               /\ t.log.cb = << >>
    /\ \A f \in TickResults(State) :
           IF f.log.done = << >>
           THEN /\ f.currentKeyframe = currentKeyframe
                /\ f.targetKeyframe = targetKeyframe
                /\ f.log.cb = << >>
           ELSE LET tween == tweens[CHOOSE i \in KeyedTweens(State) : TRUE]
                IN  /\ f.log.done = << targetKeyframe >>
                    /\ f.currentKeyframe = targetKeyframe
                    /\ f.targetKeyframe = Undefined
                    /\ KeyedTweens(f) = { }
                    /\ f.log.cb =
                           IF tween.callback = "none" THEN << >>
                           ELSE << [ key |-> tween.key,
                                     currentKeyframe |-> tween.key,
                                     targetKeyframe |-> Undefined ] >>

\* C5 witness: the free-look transition is one frame from its end, and that
\* frame runs its callback.
C5_Witness ==
    /\ targetKeyframe = "orbitControlsStart"
    /\ currentKeyframe = Undefined
    /\ \E f \in TickResults(State) :
           f.log.done = << "orbitControlsStart" >> /\ Len(f.log.cb) = 1

\* C6: at the monitor, a pointer-down that handleInput takes for a hit on
\* the computer changes nothing of the camera and no handler of the event
\* triggers enterMonitor or leftMonitor.
C6_ComputerHitAtMonitor ==
    currentKeyframe = "monitor" =>
        \A in \in UnfilteredInputs(State) :
            clickedComputerOn(State, in[2]) =>
                \A t \in PointerDown(State, in) :
                    SameCamera(State, t) /\ t.log.trig = << >>

\* C7: at the desk, a pointer-down on an unfiltered target whose nearest hit
\* has a name with a substring of TOUCH_TARGETS triggers enterMonitor once,
\* leftMonitor never, and leaves a transition to the monitor in flight.
C7_ComputerHitAtDesk ==
    currentKeyframe = "desk" =>
        \A in \in UnfilteredInputs(State) :
            (in[2] # << >> /\ isClickableComputerPart(in[2][1])) =>
                \A t \in PointerDown(State, in) :
                    /\ t.log.trig = << "enterMonitor" >>
                    /\ t.targetKeyframe = "monitor"
                    /\ t.currentKeyframe = Undefined
                    /\ \E i \in KeyedTweens(t) : t.tweens[i].key = "monitor"

\* C8: at the monitor, a pointer-down on an unfiltered target whose nearest
\* hit is wall-01, or has another name with no substring of the allow-lists,
\* triggers leftMonitor once, enterMonitor never, and leaves
\* targetKeyframe = desk.
C8_BackgroundHitAtMonitor ==
    currentKeyframe = "monitor" =>
        \A in \in UnfilteredInputs(State) :
            (in[2] # << >> /\ ~isClickableComputerPart(in[2][1])
                           /\ ~clickedComputerOn(State, in[2])) =>
                \A t \in PointerDown(State, in) :
                    /\ t.log.trig = << "leftMonitor" >>
                    /\ t.targetKeyframe = "desk"

\* C9: a pointer-down on an unfiltered target whose nearest hit is not the
\* computer, or that hits nothing, leaves targetKeyframe = desk when the
\* camera was at or heading to idle, and targetKeyframe = idle when it was
\* at or heading to desk, whether or not a transition was in flight.
C9_BackgroundToggle ==
    \A in \in UnfilteredInputs(State) :
        (in[2] = << >> \/ (~isClickableComputerPart(in[2][1])
                           /\ ~clickedComputerOn(State, in[2]))) =>
            \A t \in PointerDown(State, in) :
                /\ (currentKeyframe = "idle" \/ targetKeyframe = "idle") =>
                       t.targetKeyframe = "desk"
                /\ (currentKeyframe = "desk" \/ targetKeyframe = "desk") =>
                       t.targetKeyframe = "idle"

\* C10: handleInput given a target that is an IFRAME, lies in a button or a
\* link, or has the id prevent-click returns the state it was given and
\* triggers nothing, in every state and whatever the ray would meet.
C10_FilteredTargetsIgnored ==
    \A target \in { "IFRAME", "button", "a", "prevent-click" } :
        \A intersects \in Intersections :
            handleInput(State, target, intersects) = State

\* C10 witness: a state where the same pointer-down on the canvas moves the
\* camera and on a link does not.
C10_Witness ==
    /\ currentKeyframe = "desk"
    /\ handleInput(State, "canvas", << NameHitbox >>).targetKeyframe = "monitor"
    /\ handleInput(State, "a", << NameHitbox >>) = State

\* What a listener that starts one transition leaves: the transition to key
\* of the duration given is the only one in flight and has not advanced.
StartsTransition(t, key, duration) ==
    /\ t.log.started = << key >>
    /\ t.currentKeyframe = Undefined
    /\ t.targetKeyframe = key
    /\ Cardinality(KeyedTweens(t)) = 1
    /\ \A i \in KeyedTweens(t) :
           /\ t.tweens[i].key = key
           /\ t.tweens[i].duration = duration
           /\ t.tweens[i].elapsed = 0

\* C11: the enterMonitor listener leaves the state as it is when
\* currentKeyframe is monitor (no transition, nothing on the UI event bus);
\* in every other state it starts a transition of 2000 ms to monitor and
\* dispatches 'enterMonitor' on the UI event bus once.
C11_EnterMonitorHandler ==
    LET t == onEnterMonitor(State)
    IN  IF currentKeyframe = "monitor"
        THEN t = State
        ELSE /\ StartsTransition(t, "monitor", 2000)
             /\ t.log.ui = << "enterMonitor" >>

\* C11 witness: the camera is heading to the desk and the listener replaces
\* that transition by one to the monitor.
C11_Witness ==
    /\ targetKeyframe = "desk"
    /\ onEnterMonitor(State).log.removed # << >>
    /\ onEnterMonitor(State).log.ui = << "enterMonitor" >>

\* C12: the leftMonitor listener leaves the state as it is when
\* currentKeyframe is desk; in every other state it starts a transition of
\* 1000 ms to desk and dispatches 'leftMonitor' on the UI event bus once.
C12_LeftMonitorHandler ==
    LET t == onLeftMonitor(State)
    IN  IF currentKeyframe = "desk"
        THEN t = State
        ELSE /\ StartsTransition(t, "desk", 1000)
             /\ t.log.ui = << "leftMonitor" >>

\* C12 witness: the camera rests at the monitor and the listener starts the
\* transition to the desk.
C12_Witness ==
    /\ currentKeyframe = "monitor"
    /\ onLeftMonitor(State).targetKeyframe = "desk"
    /\ onLeftMonitor(State).log.ui = << "leftMonitor" >>

ClearLog(s) == [s EXCEPT !.log = EmptyLog]

\* The least number of frames that span ms milliseconds.
FramesFor(ms) ==
    LET dt == CHOOSE d \in FrameDeltas : TRUE
    IN  CHOOSE n \in 0..MaxFrames : n * dt >= ms /\ (n - 1) * dt < ms

\* C13: free look end to end.  From a state where free look is not engaged,
\* freeCamToggle(true) followed by the frames of 750 ms and no other event
\* leaves freeCam true, currentKeyframe = orbitControlsStart and the render
\* pose at the authored pose of orbitControlsStart; freeCamToggle(false)
\* after that, followed by the frames of 4000 ms, leaves currentKeyframe =
\* idle, targetKeyframe undefined and freeCam false.
C13_FreeLookRoundTrip ==
    ~freeCam =>
        LET on == Settle(onFreeCamToggle(State, TRUE), FramesFor(750))
            off == Settle(onFreeCamToggle(ClearLog(on), FALSE), FramesFor(4000))
        IN  /\ on.freeCam
            /\ on.currentKeyframe = "orbitControlsStart"
            /\ on.targetKeyframe = Undefined
            /\ on.position = keys["orbitControlsStart"].position
            /\ on.focalPoint = keys["orbitControlsStart"].focalPoint
            /\ on.instance.position = keys["orbitControlsStart"].position
            /\ off.currentKeyframe = "idle"
            /\ off.targetKeyframe = Undefined
            /\ ~off.freeCam

\* C13 witness: free look has been engaged from the monitor view and the
\* camera rests at orbitControlsStart, from where toggling off leads to idle.
C13_Witness ==
    /\ freeCam
    /\ currentKeyframe = "orbitControlsStart"
    /\ position = keys["orbitControlsStart"].position
    /\ screen.blockerPointerEvents = "none"
    /\ Settle(onFreeCamToggle(State, FALSE), FramesFor(4000)).currentKeyframe = "idle"

\* C14: post-load end to end.  From currentKeyframe = loading,
\* loadingScreenDone followed by the frames of 2500 ms and no other event
\* leaves currentKeyframe = idle and targetKeyframe undefined, not sooner
\* than the last of those frames, and in that frame position and focalPoint
\* are the idle keyframe's position and focalPoint as updated in that frame.
C14_PostLoadReachesIdle ==
    currentKeyframe = "loading" =>
        LET t == onLoadingScreenDone(State)
            before == Settle(t, FramesFor(2500) - 1)
            at == Settle(t, FramesFor(2500))
        IN  /\ StartsTransition(t, "idle", 2500)
            /\ before.targetKeyframe = "idle"
            /\ at.currentKeyframe = "idle"
            /\ at.targetKeyframe = Undefined
            /\ at.position = at.keyframes["idle"].position
            /\ at.focalPoint = at.keyframes["idle"].focalPoint
            /\ at.instance.position = at.position
            /\ at.instance.lookAt = at.focalPoint

\* C14 witness: the state after construction on a narrow viewport, from
\* which loadingScreenDone and its frames bring the camera to idle.
C14_Witness ==
    /\ currentKeyframe = "loading"
    /\ position = Origin
    /\ isMobile(State)
    /\ Settle(onLoadingScreenDone(State), FramesFor(2500)).currentKeyframe = "idle"

\* The time the transition in flight has still to run.
Remaining(s) ==
    IF KeyedTweens(s) = { } THEN 0
    ELSE LET tween == s.tweens[CHOOSE i \in KeyedTweens(s) : TRUE]
         IN  tween.duration - tween.elapsed

\* C15: every transition resolves.  While targetKeyframe = k, each frame
\* either completes the transition or shortens the time it has still to run,
\* and frames that follow one another with no event in between end with
\* currentKeyframe = k and targetKeyframe undefined.
C15_TransitionResolves ==
    targetKeyframe # Undefined =>
        /\ Remaining(State) > 0
        /\ \A f \in TickResults(State) :
               \/ f.currentKeyframe = targetKeyframe /\ f.targetKeyframe = Undefined
               \/ /\ f.targetKeyframe = targetKeyframe
                  /\ f.currentKeyframe = Undefined
                  /\ 0 < Remaining(f)
                  /\ Remaining(f) < Remaining(State)
        /\ LET f == Settle(State, MaxFrames)
           IN  /\ f.currentKeyframe = targetKeyframe
               /\ f.targetKeyframe = Undefined
               /\ f.log.done = << targetKeyframe >>

\* C15 witness: the 4000 ms transition to idle has just been asked for and
\* the frames that follow bring the camera to idle.
C15_Witness ==
    /\ targetKeyframe = "idle"
    /\ Remaining(State) = 4000
    /\ Settle(State, MaxFrames).currentKeyframe = "idle"

\* C16: requests are idempotent.  A request for the keyframe a transition in
\* flight already heads to changes nothing: the tweens go on as they were,
\* the time to completion is the same and nothing more is dispatched on the
\* UI event bus; so for transition itself and for a second enterMonitor
\* while targetKeyframe = monitor.
C16_RequestsIdempotent ==
    \A key \in CameraKey :
        targetKeyframe = key =>
            /\ LET tween == tweens[CHOOSE i \in KeyedTweens(State) : TRUE]
                   t == transition(State, key, tween.duration, tween.easing,
                                   tween.callback)
               IN  /\ t.tweens = tweens
                   /\ Remaining(t) = Remaining(State)
                   /\ t.log.started = << >>
            /\ key = "monitor" =>
                   LET t == trigger(State, "enterMonitor")
                   IN  /\ t.tweens = tweens
                       /\ Remaining(t) = Remaining(State)
                       /\ t.log.ui = << >>

\* C17: in the build with the blocker, whenever currentKeyframe is monitor
\* the blocker's pointer-events is 'none', so that it takes no input meant
\* for the page behind it.
C17_BlockerOffWhileFocused ==
    (overlay = "blocker" /\ currentKeyframe = "monitor") =>
        /\ screen.blockerPointerEvents = "none"
        /\ ~TargetPresent(State, "blocker")

\* C17 witness: the camera rests at the monitor, frames have run, and the
\* blocker takes no pointer events.
C17_Witness ==
    /\ overlay = "blocker"
    /\ currentKeyframe = "monitor"
    /\ screen.blockerPointerEvents = "none"
    /\ keyframes["desk"] # keys["desk"]

\* How many entries of seq are x.
Count(seq, x) == Cardinality({ i \in 1..Len(seq) : seq[i] = x })

\* The pointer-downs of a click or tap on the footprint of the embedded
\* page while the canvas takes no pointer events: on the blocker where the
\* blocker takes them and on the iframe where it does not; in the build
\* with the raycast overlay, on an element whose ray meets the screen mesh.
FootprintInputs(s) ==
    { in \in PointerInputs(s) :
        IF s.overlay = "blocker"
        THEN in[1] = (IF TargetPresent(s, "blocker") THEN "blocker" ELSE "IFRAME")
        ELSE in[1] \in { "IFRAME", "canvas" } /\ in[3] }

\* One click (mousedown) or tap (touchstart) on the footprint: the document
\* listeners of the pointer-down, then blocker.onclick where the pointer-down
\* was on the blocker and the blocker still takes pointer events.
FootprintClick(s, in, touch) ==
    LET s1 == IF touch THEN touchStart(s, in[1], in[2], in[3])
                       ELSE mouseDown(s, in[1], in[2], in[3])
    IN  IF in[1] = "blocker" /\ TargetPresent(s1, "blocker")
        THEN blockerOnClick(s1)
        ELSE s1

\* C18: while the camera rests at idle or desk (no free look, the canvas
\* takes no pointer events), one click or tap on the footprint of the
\* embedded page starts exactly one transition to monitor and dispatches
\* 'enterMonitor' on the UI event bus exactly once, whatever object the
\* camera's ray met first.
C18_FootprintClickEntersOnce ==
    ( /\ currentKeyframe \in { "idle", "desk" }
      /\ targetKeyframe = Undefined
      /\ ~freeCam
      /\ webglPointerEvents = "none" ) =>
        \A in \in FootprintInputs(State) : \A touch \in BOOLEAN :
            LET t == FootprintClick(State, in, touch)
            IN  /\ Count(t.log.started, "monitor") = 1
                /\ Count(t.log.ui, "enterMonitor") = 1

\* C19: the back button is displayed only while the camera is at the monitor
\* or on its way there.
C19_BackButtonOnlyWhenFocused ==
    screen.backButtonDisplay = "block" =>
        (currentKeyframe = "monitor" \/ targetKeyframe = "monitor")

\* The pointer-down of an activation of the back button as the document's
\* listeners see it: the mousedown of a click; nothing for a tap, whose
\* touchstart the button stops.
BackButtonDown(s, touch) ==
    IF touch THEN s ELSE mouseDown(s, "back-button", << >>, FALSE)

\* C20: at the monitor, an activation of the back button (its pointer-down,
\* then its click or touchend) triggers leftMonitor once and nothing else,
\* and the camera then heads to desk: the pointer-down starts no transition
\* and triggers nothing, and no enterMonitor or toggle between desk and idle
\* comes of the activation.
C20_BackButtonLeavesOnly ==
    (currentKeyframe = "monitor" /\ TargetPresent(State, "back-button")) =>
        \A touch \in BOOLEAN :
            LET down == BackButtonDown(State, touch)
                t == backButtonActivate(down)
            IN  /\ down.log = EmptyLog
                /\ t.log.trig = << "leftMonitor" >>
                /\ t.log.started = << "desk" >>
                /\ t.targetKeyframe = "desk"
                /\ t.screen.backButtonDisplay = "none"

\* C20 witness: the camera rests at the monitor with the back button shown,
\* and its activation by a click has set the camera off to desk.
C20_Witness ==
    /\ currentKeyframe = "monitor"
    /\ TargetPresent(State, "back-button")
    /\ backButtonActivate(BackButtonDown(State, FALSE)).targetKeyframe = "desk"

\* The easings and callbacks the program passes to transition.
TransitionCalls ==
    { << "monitor", 2000, "Bezier", "none" >>,
      << "desk", DefaultDuration, "Quintic.InOut", "none" >>,
      << "idle", DefaultDuration, "Quintic.InOut", "none" >>,
      << "idle", 4000, "Exponential.Out", "none" >>,
      << "idle", 2500, "Exponential.Out", "none" >>,
      << "orbitControlsStart", 750, "Bezier", "freeCam" >> }

\* C21: only the frame update writes the render pose.  Every other handler
\* (the pointer listeners, transition, the enterMonitor and leftMonitor
\* listeners, freeCamToggle, loadingScreenDone, resize, the overlay's
\* handlers) leaves position and focalPoint as they were when it ran.
C21_PoseWrittenOnlyByUpdate ==
    /\ \A t \in EventResults(State) :
           t.position = position /\ t.focalPoint = focalPoint
    /\ \A c \in TransitionCalls :
           LET t == transition(State, c[1], c[2], c[3], c[4])
           IN  t.position = position /\ t.focalPoint = focalPoint
    /\ \A t \in { onEnterMonitor(State), onLeftMonitor(State) } :
           t.position = position /\ t.focalPoint = focalPoint

\* C21 witness: while the pose is part-way through a transition, an event
\* starts another transition and the pose stays where it was.
C21_Witness ==
    /\ position.k = "mid"
    /\ \E t \in EventResults(State) :
           /\ t.log.started # << >>
           /\ t.position = position
           /\ t.targetKeyframe # targetKeyframe

\* C22: the four tests for a narrow viewport (isMobile of MobileConfig,
\* Camera.isMobile, the tests inside MonitorKeyframe.update and
\* DeskKeyframe.update) answer alike for every width: narrow exactly when
\* width < 768, so 768 itself is not narrow.  The tests inside the two
\* updates are read off the pose they produce.
C22_NarrowDecisionsAgree ==
    LET narrow == sizes.width < 768
        monitorPose == MonitorKeyframe_update(State, keyframes["monitor"]).position
    IN  /\ MobileConfig_isMobile(sizes) = narrow
        /\ isMobile(State) = narrow
        /\ (monitorPose # Vec("monitor", MonitorDesktopZ, 1, 0)) = narrow
        /\ \A sample \in DeskParallaxSamples :
               (DeskKeyframe_update(State, keyframes["desk"], sample).position
                    = Vec("desk", 1, 1, 0)) = narrow
        /\ (DeskKeyframe_parallax(desk, mouse, sizes).pos.z = 5200 * Scale) = narrow

\* C22 witness: frames have run at the breakpoint width itself and the
\* monitor keeps its desktop distance.
C22_Witness ==
    /\ sizes.width = 768
    /\ desk # DeskOrigin
    /\ keyframes["monitor"].position = Vec("monitor", MonitorDesktopZ, 1, 0)

\* Fractions n / d with d >= 0, Infinity as n / 0 and NaN as 0 / 0.
IsNaN(a) == a.n = 0 /\ a.d = 0

IsFinite(a) == a.d # 0

\* a >= b as IEEE compares: false when either is NaN.
Geq(a, b) ==
    /\ ~IsNaN(a)
    /\ ~IsNaN(b)
    /\ a.n * b.d >= b.n * a.d

\* The monitor distance MonitorKeyframe.update leaves for a viewport.
MonitorDistance(sz) ==
    LET p == MonitorKeyframe_update([State EXCEPT !.sizes = sz],
                                    keyframes["monitor"]).position
    IN  [n |-> p.n, d |-> p.d]

\* C23: on narrow viewports of positive height the monitor distance does not
\* decrease as the viewport narrows: for widths w1 <= w2 < 768 of one height,
\* distance(w1, h) >= distance(w2, h); so for MonitorKeyframe.update and for
\* both getMobileMonitorPosition.
C23_DistanceGrowsAsViewportNarrows ==
    (sizes.width < 768 /\ sizes.height > 0) =>
        \A v \in ReframeViewports :
            (v.height = sizes.height /\ v.width <= sizes.width) =>
                /\ Geq(MonitorDistance(v), MonitorDistance(sizes))
                /\ Geq(getMobileMonitorPosition(v), getMobileMonitorPosition(sizes))
                /\ Geq(getMobileMonitorPosition_earlier(v),
                       getMobileMonitorPosition_earlier(sizes))

\* C23 witness: a frame has reframed the monitor for a narrow viewport that
\* has a narrower one of the same height beside it.
C23_Witness ==
    /\ sizes.width = 767
    /\ sizes.height > 0
    /\ keyframes["monitor"].position # keys["monitor"].position
    /\ \E v \in ReframeViewports :
           v.height = sizes.height /\ v.width < sizes.width /\ v.width > 0

\* C24: the reframing does not divide by zero: for a viewport of width 0 or
\* height 0, getMobileMonitorPosition and MonitorKeyframe.update give a
\* finite distance, and the monitor keyframe holds a finite distance after
\* every frame.
C24_ReframingFinite ==
    (sizes.width = 0 \/ sizes.height = 0) =>
        /\ IsFinite(getMobileMonitorPosition(sizes))
        /\ IsFinite(getMobileMonitorPosition_earlier(sizes))
        /\ IsFinite(MonitorDistance(sizes))
        /\ keyframes["monitor"].position.d # 0

\* How near counts as arrived, in fixed-point units.
Epsilon == 100

Abs(a) == IF a < 0 THEN 0 - a ELSE a

\* The target of the desk's position for a pointer and a viewport:
\* (mouse.x - width / 2, 2 * height - mouse.y, origin z).
DeskGoal(m, sz) ==
    [ x |-> m.x * Scale - (sz.width * Scale) \div 2,
      y |-> (2 * sz.height - m.y) * Scale,
      z |-> DeskOrigin.pos.z ]

\* The same target with its height kept at the floor of 1200 or above.
DeskGoalAboveFloor(m, sz) ==
    LET g == DeskGoal(m, sz)
    IN  [g EXCEPT !.y = IF g.y < 1200 * Scale THEN 1200 * Scale ELSE g.y]

\* One update brings a coordinate nearer to its goal while it is further
\* than Epsilon from it, and keeps it within Epsilon once there; the
\* distance is a whole number of units, so it is within Epsilon after
\* finitely many updates.
Approaches(prev, next, goal) ==
    IF Abs(prev - goal) > Epsilon
    THEN Abs(next - goal) < Abs(prev - goal)
    ELSE Abs(next - goal) <= Epsilon

DeskApproaches(goal) ==
    LET next == DeskKeyframe_parallax(desk, mouse, sizes)
    IN  /\ Approaches(desk.pos.x, next.pos.x, goal.x)
        /\ Approaches(desk.pos.y, next.pos.y, goal.y)
        /\ next.pos.z = goal.z

\* C25 as stated: on a wide viewport, with the pointer and the viewport
\* held, the desk's position comes within Epsilon of
\* (mouse.x - width / 2, 2 * height - mouse.y, origin z) after finitely
\* many updates.
C25_DeskConvergesToPointerTarget ==
    sizes.width >= 768 => DeskApproaches(DeskGoal(mouse, sizes))

\* C25 amended: on a wide viewport, with the pointer and the viewport held,
\* the desk's position comes within Epsilon of
\* (mouse.x - width / 2, max(1200, 2 * height - mouse.y), origin z) after
\* finitely many updates.
C25_DeskConvergesAboveFloor ==
    sizes.width >= 768 => DeskApproaches(DeskGoalAboveFloor(mouse, sizes))

\* C25 witness: frames have brought the desk's position from further than
\* Epsilon to within Epsilon of its target, at the floor.
C25_Witness ==
    LET goal == DeskGoalAboveFloor(mouse, sizes)
    IN  /\ sizes.width >= 768
        /\ Abs(DeskOrigin.pos.x - goal.x) > Epsilon
        /\ Abs(DeskOrigin.pos.y - goal.y) > Epsilon
        /\ Abs(desk.pos.x - goal.x) <= Epsilon
        /\ Abs(desk.pos.y - goal.y) <= Epsilon
        /\ goal.y # DeskGoal(mouse, sizes).y

C27_ViewpointVectorsOwned ==
    /\ \A t \in EventResults(State) : t.keyframes = keyframes
    /\ \A c \in TransitionCalls :
           transition(State, c[1], c[2], c[3], c[4]).keyframes = keyframes
    /\ \A in \in FrameDeltas \X IdleSamples \X DeskParallaxSamples :
           LET t == update(State, in[1], in[2], in[3])
           IN  /\ t.keyframes["loading"] = keys["loading"]
               /\ t.keyframes["orbitControlsStart"] = keys["orbitControlsStart"]
               /\ t.keyframes["idle"].focalPoint = keys["idle"].focalPoint
               /\ t.keyframes["monitor"].focalPoint = keys["monitor"].focalPoint
               /\ t.freeCam => t.keyframes = keyframes
               /\ ~t.freeCam =>
                      /\ t.keyframes["idle"] =
                             IdleKeyframe_update(keyframes["idle"], in[2])
                      /\ t.keyframes["monitor"] =
                             MonitorKeyframe_update(State, keyframes["monitor"])
                      /\ t.keyframes["desk"] =
                             DeskKeyframe_update(State, keyframes["desk"], in[3])

\* C27 witness: a frame is about to write the render pose from tweens in
\* flight toward a viewpoint whose vectors a rule has already moved.
C27_Witness ==
    /\ position.k = "mid"
    /\ targetKeyframe = "idle"
    /\ keyframes["idle"].position # keys["idle"].position
    /\ keyframes["orbitControlsStart"] = keys["orbitControlsStart"]

\* The tweens whose completion engages free look.
EngagingTweens(s) ==
    { i \in 1..Len(s.tweens) : s.tweens[i].callback = "freeCam" }

\* C28: freeCam becomes true only when a transition to orbitControlsStart
\* that freeCamToggle(true) started completes.  No handler other than the
\* frame update sets it; a frame sets it only by completing that transition;
\* the tween that would set it exists only while the camera heads to
\* orbitControlsStart; and every other transition request that arrives
\* before removes it, so that engage request never sets freeCam.
C28_FreeCamOnlyOnCompletion ==
    /\ \A i \in EngagingTweens(State) :
           /\ targetKeyframe = "orbitControlsStart"
           /\ tweens[i].key = "orbitControlsStart"
    /\ Cardinality(EngagingTweens(State)) <= 1
    /\ \A t \in EventResults(State) :
           /\ t.freeCam => freeCam
           /\ (t.log.started # << >> /\ Last(t.log.started) # "orbitControlsStart")
                  => EngagingTweens(t) = { }
    /\ \A t \in TickResults(State) :
           (t.freeCam /\ ~freeCam) =>
               /\ targetKeyframe = "orbitControlsStart"
               /\ EngagingTweens(State) # { }
               /\ t.log.done = << "orbitControlsStart" >>
               /\ t.currentKeyframe = "orbitControlsStart"

\* C28 witness: the transition to orbitControlsStart is in flight with the
\* engaging tween, an event can supersede it, and the next frame can
\* complete it.
C28_Witness ==
    /\ ~freeCam
    /\ EngagingTweens(State) # { }
    /\ \E t \in EventResults(State) :
           t.log.started # << >> /\ EngagingTweens(t) = { }
    /\ \E t \in TickResults(State) : t.freeCam

\* C29: disengage wins.  freeCamToggle(false) leaves freeCam false at once,
\* with no tween left that could engage free look, and starts a transition
\* of 4000 ms to idle unless the camera rests at idle; from then on no
\* handler and no frame sets freeCam until a freeCamToggle(true) arrives.
\* So freeCam is false in every state whose latest freeCamToggle carried
\* false.
C29_DisengageWins ==
    /\ LET t == onFreeCamToggle(State, FALSE)
       IN  /\ ~t.freeCam
           /\ EngagingTweens(t) = { }
           /\ IF currentKeyframe = "idle"
              THEN t.log.started = << >> /\ t.tweens = tweens
              ELSE StartsTransition(t, "idle", 4000)
    /\ (~freeCam /\ EngagingTweens(State) = { }) =>
           \A t \in EventResults(State) \cup TickResults(State) :
               Count(t.log.req, "orbitControlsStart") = 0 =>
                   ~t.freeCam /\ EngagingTweens(t) = { }

\* C29 witness: free look is engaged, or about to be, and freeCamToggle(false)
\* clears it and sets the camera off to idle.
C29_Witness ==
    /\ freeCam
    /\ currentKeyframe = "orbitControlsStart"
    /\ ~onFreeCamToggle(State, FALSE).freeCam
    /\ onFreeCamToggle(State, FALSE).targetKeyframe = "idle"

\* C30: a frame that finds freeCam true once the tweens have run copies the
\* orbit controller's camera position and target into the render pose and
\* returns: no viewpoint is updated, no viewpoint's pose is copied into the
\* render pose and the camera the controller owns is not moved.
C30_FreeLookFrame ==
    \A in \in FrameDeltas \X IdleSamples \X DeskParallaxSamples :
        LET t == update(State, in[1], in[2], in[3])
            s1 == TWEEN_update(State, in[1])
        IN  t.freeCam =>
                /\ t.position = s1.instance.position
                /\ t.focalPoint = keys["orbitControlsStart"].focalPoint
                /\ t.instance.position = s1.instance.position
                /\ t.keyframes = keyframes

\* C30 witness: free look is engaged, the controller has moved its camera
\* away from every viewpoint, the camera's currentKeyframe names a viewpoint
\* that a frame outside free look would copy, and a frame follows.
C30_Witness ==
    /\ freeCam
    /\ instance.position = OrbitFree
    /\ position = OrbitFree
    /\ currentKeyframe = "idle"

\* C31: in a frame that finds free look not engaged once the tweens have
\* run, every viewpoint's update() runs, and the render pose is the current
\* viewpoint's live pose when currentKeyframe is defined and is not monitor;
\* in flight or at monitor it is the pose the interpolators left.
C31_LivePoseCopiedUnlessMonitor ==
    \A in \in FrameDeltas \X IdleSamples \X DeskParallaxSamples :
        LET t == update(State, in[1], in[2], in[3])
            s1 == TWEEN_update(State, in[1])
        IN  ~t.freeCam =>
                /\ t.keyframes["idle"] =
                       IdleKeyframe_update(keyframes["idle"], in[2])
                /\ t.keyframes["monitor"] =
                       MonitorKeyframe_update(State, keyframes["monitor"])
                /\ t.keyframes["desk"] =
                       DeskKeyframe_update(State, keyframes["desk"], in[3])
                /\ IF t.currentKeyframe \notin { Undefined, "monitor" }
                   THEN /\ t.position = t.keyframes[t.currentKeyframe].position
                        /\ t.focalPoint = t.keyframes[t.currentKeyframe].focalPoint
                   ELSE /\ t.position = s1.position
                        /\ t.focalPoint = s1.focalPoint

\* C31 witness: the camera rests at monitor outside free look, with a render
\* position that is not the monitor viewpoint's live position, and a frame
\* follows.
C31_Witness ==
    /\ ~freeCam
    /\ currentKeyframe = "monitor"
    /\ tweens = << >>
    /\ position # MonitorKeyframe_update(State, keyframes["monitor"]).position

\* Frames follow one another, with no event in between, until no tween is
\* left.
RECURSIVE Rest(_, _)
Rest(s, frames) ==
    IF frames = 0 \/ s.tweens = << >> THEN s
    ELSE Rest(CHOOSE t \in TickResults(s) : TRUE, frames - 1)

\* The monitor pose for the viewport of s: the monitor viewpoint's live
\* position once MonitorKeyframe.update has seen that viewport, with the
\* narrow-viewport shift of getMonitorPosition where the controller frames
\* the monitor.
Reframed(s) ==
    LET live == MonitorKeyframe_update(s, s.keyframes["monitor"])
    IN  IF s.reframe = "controller"
        THEN getMonitorPosition([s EXCEPT !.keyframes["monitor"] = live])
        ELSE live.position

\* C32: after a resize that finds the camera at monitor or on its way there
\* (free look not engaged), the handler itself leaves the render position
\* where it was, and the frames that follow with no other event bring it to
\* the monitor pose reframed for the new viewport.
C32_ResizeReframesMonitor ==
    (~freeCam /\ (currentKeyframe = "monitor" \/ targetKeyframe = "monitor")) =>
        \A t \in ResizeResults(State) :
            LET f == Rest(t, MaxFrames)
            IN  /\ t.position = position
                /\ f.tweens = << >>
                /\ f.position = Reframed(f)

\* Where the pointer can be when a frame runs: a corner of the viewport, or
\* the corner of a larger viewport the window had before it shrank.
PointersSeen == UNION { Pointers(sz) : sz \in ReframeViewports }

\* C33: after every DeskKeyframe.update the desk's position is at height
\* 1200 or above: in every state the frames reach, and after the update that
\* follows any move of the pointer and any change of the viewport.
C33_DeskAboveFloor ==
    /\ desk.pos.y >= 1200 * Scale
    /\ \A sz \in ReframeViewports : \A m \in PointersSeen :
           DeskKeyframe_parallax(desk, m, sz).pos.y >= 1200 * Scale

\* C33 witness: on a wide viewport the desk rests on the floor, held there
\* by the limit while the pointer pulls it lower.
C33_Witness ==
    /\ sizes.width >= 768
    /\ desk.pos.y = 1200 * Scale
    /\ Smooth(desk.pos.y, (2 * sizes.height - mouse.y) * Scale, 1) < 1200 * Scale

\* C34: on a narrow viewport the desk's pose after update() is one fixed
\* pose: the update gives it from every pose earlier frames left, wide
\* viewports included, and for every pointer; and a narrow viewport's runs
\* hold it after their first frame.
C34_NarrowDeskPoseFixed ==
    /\ \A sz \in ReframeViewports : \A m \in PointersSeen :
           sz.width < 768 =>
               DeskKeyframe_parallax(desk, m, sz) =
                   DeskKeyframe_parallax(DeskOrigin, [x |-> 0, y |-> 0], sz)
    /\ (sizes.width < 768 /\ desk # DeskOrigin) =>
           desk = DeskKeyframe_parallax(DeskOrigin, [x |-> 0, y |-> 0], sizes)

\* C34 witness: frames have run on a narrow viewport with the pointer away
\* from the corner the comparison starts from, and the desk has left the
\* pose it was constructed with.
C34_Witness ==
    /\ sizes.width < 768
    /\ sizes.width > 0
    /\ mouse = [x |-> sizes.width, y |-> sizes.height]
    /\ desk # DeskOrigin

\* C35: once the embedded frame has loaded, each message it posts is
\* dispatched on the iframe exactly once, however many times the frame has
\* loaded: one event of the message's type, with the coordinates scaled
\* into the iframe's rectangle (to the nearest pixel) for mousemove and with
\* the key for keydown and keyup.
C35_MessageDispatchedOnce ==
    messageListeners >= 1 =>
        \A data \in Messages : \A clRect \in ClientRects :
            LET out == onMessage(messageListeners, data, clRect)
            IN  /\ Len(out) = 1
                /\ out[1].type = data.type
                /\ data.type = "mousemove" =>
                       /\ 2 * Abs((out[1].clientX - clRect.left) * IFRAME_SIZE.w
                                  - data.clientX * clRect.width) <= IFRAME_SIZE.w
                       /\ 2 * Abs((out[1].clientY - clRect.top) * IFRAME_SIZE.h
                                  - data.clientY * clRect.height) <= IFRAME_SIZE.h
                /\ data.type \in { "keydown", "keyup" } => out[1].key = data.key

\* The distances and the dots MonitorScreen.update computes at the camera
\* places.
DimDistances == { planeDistance(camPos) : camPos \in DimCameras }

DimDots == { viewDot(camPos) : camPos \in DimCameras }

\* The opacity a frame would set with the camera at camPos.
OpacityAt(camPos) ==
    MonitorScreen_update([dimmer EXCEPT !.camPos = camPos]).opacity

\* C36: for a fixed viewing angle the opacity MonitorScreen.update computes
\* does not decrease as the camera's distance from the dimming plane grows,
\* and for a fixed distance it does not decrease as the view direction
\* turns away from the plane's normal (as the dot falls): for every distance
\* and dot the camera places give, and between the camera's place and every
\* other place of the same dot or the same distance.
C36_DimmingMonotone ==
    /\ \A d1 \in DimDistances : \A d2 \in DimDistances : \A dot \in DimDots :
           d1 <= d2 => Geq(dimOpacity(d2, dot), dimOpacity(d1, dot))
    /\ \A d \in DimDistances : \A dot1 \in DimDots : \A dot2 \in DimDots :
           dot1 >= dot2 => Geq(dimOpacity(d, dot2), dimOpacity(d, dot1))
    /\ \A camPos \in DimCameras :
           /\ ( /\ viewDot(camPos) = viewDot(dimmer.camPos)
                /\ planeDistance(camPos) >= planeDistance(dimmer.camPos) )
                  => Geq(OpacityAt(camPos), OpacityAt(dimmer.camPos))
           /\ ( /\ planeDistance(camPos) = planeDistance(dimmer.camPos)
                /\ viewDot(camPos) <= viewDot(dimmer.camPos) )
                  => Geq(OpacityAt(camPos), OpacityAt(dimmer.camPos))

\* C36 witness: a frame has set the opacity with the camera on the screen's
\* axis 1000 in front of the dimming plane; there are places further along
\* the axis, at the same angle, and a place at the same distance off the
\* axis.
C36_Witness ==
    /\ dimmer.camPos = [x |-> 0, y |-> 950, z |-> 1346]
    /\ dimmer.opacity = OpacityAt(dimmer.camPos)
    /\ \E camPos \in DimCameras :
           /\ viewDot(camPos) = viewDot(dimmer.camPos)
           /\ planeDistance(camPos) > planeDistance(dimmer.camPos)
           /\ OpacityAt(camPos) # OpacityAt(dimmer.camPos)
    /\ \E camPos \in DimCameras :
           /\ planeDistance(camPos) = planeDistance(dimmer.camPos)
           /\ viewDot(camPos) < viewDot(dimmer.camPos)
           /\ OpacityAt(camPos) # OpacityAt(dimmer.camPos)

\* C37: in every reachable state exactly one of currentKeyframe and
\* targetKeyframe is defined: currentKeyframe is undefined exactly while the
\* tween that carries a transition's onComplete is in flight, and
\* targetKeyframe is undefined exactly while none is.
C37_ExactlyOneKeyframeDefined ==
    /\ (currentKeyframe = Undefined) # (targetKeyframe = Undefined)
    /\ (currentKeyframe = Undefined) <=> (KeyedTweens(State) # { })
    /\ (targetKeyframe = Undefined) <=> (KeyedTweens(State) = { })
    /\ currentKeyframe \in CameraKey \cup { Undefined }
    /\ targetKeyframe \in CameraKey \cup { Undefined }

\* C37 witness: a transition to monitor was started and its last frame has
\* run onComplete: the camera rests at monitor, where its
\* position tween ended, with no tween left.
C37_Witness ==
    /\ currentKeyframe = "monitor"
    /\ targetKeyframe = Undefined
    /\ tweens = << >>
    /\ position.k = "monitor"

\* Whether the overlay holds the focus: the blocker lets pointer events
\* through to the embedded page, or MonitorScreen's isMonitorActive is set.
OverlayFocused ==
    IF overlay = "blocker"
    THEN screen.blockerPointerEvents = "none"
    ELSE screen.isMonitorActive

\* C38: the overlay's focus state never diverges from the camera: in every
\* reachable state the overlay holds the focus if and only if the camera is
\* at monitor or on its way there.
C38_OverlayFollowsCamera ==
    OverlayFocused <=> (currentKeyframe = "monitor" \/ targetKeyframe = "monitor")

\* C39: a background pointer-down (no hit, or a nearest hit that is not the
\* computer) changes nothing when the camera is neither resting at monitor
\* nor at or heading to idle or desk, that is, on its way to monitor, at
\* loading, or at or on its way to orbitControlsStart: nothing is triggered,
\* no transition is asked for and currentKeyframe and targetKeyframe are as
\* before.
C39_BackgroundNoOpElsewhere ==
    ( /\ currentKeyframe \notin { "monitor", "idle", "desk" }
      /\ targetKeyframe \notin { "idle", "desk" } ) =>
        \A in \in UnfilteredInputs(State) :
            (in[2] = << >> \/ (~isClickableComputerPart(in[2][1])
                               /\ ~clickedComputerOn(State, in[2]))) =>
                \A t \in PointerDown(State, in) :
                    /\ t.log.trig = << >>
                    /\ t.log.ui = << >>
                    /\ t.log.req = << >>
                    /\ t.currentKeyframe = currentKeyframe
                    /\ t.targetKeyframe = targetKeyframe

\* C40: loading is only the initial state.  currentKeyframe = loading at
\* the start, with the loading viewpoint at its authored pose; no step
\* changes the loading viewpoint's position or focal point; no step makes
\* targetKeyframe loading; and no step brings currentKeyframe back to
\* loading once it has left it, or leaves it at loading when it starts a
\* transition.
C40_LoadingOnlyInitial ==
    /\ currentKeyframe = "loading"
    /\ keyframes["loading"] = keys["loading"]
    /\ [][ /\ keyframes'["loading"] = keyframes["loading"]
           /\ targetKeyframe' # "loading"
           /\ currentKeyframe # "loading" => currentKeyframe' # "loading"
           /\ targetKeyframe' # targetKeyframe => currentKeyframe' # "loading"
       ]_vars

\* C40 witness: the camera has left loading and rests at idle, and frames
\* have moved the idle viewpoint while they left the loading viewpoint alone.
C40_Witness ==
    /\ currentKeyframe = "idle"
    /\ keyframes["idle"].position # keys["idle"].position
    /\ position = keyframes["idle"].position
    /\ keyframes["loading"] = keys["loading"]

====
